---- MODULE Spec2Model ----
(***************************************************************************)
(* Model of the container cleanup coordinator and of the unmount primitive *)
(* (internal/pkg/runtime/engine/singularity/cleanup_linux.go) and of the    *)
(* OCI launcher's prepare / run / cleanup wrappers                          *)
(* (internal/pkg/runtime/launcher/oci/oci_overlay.go).                      *)
(*                                                                         *)
(* Calls that leave the modelled files (syscalls, the capability library,   *)
(* CNI, cgroups, cryptsetup, the instance registry, the overlay tools) are  *)
(* environment steps: each one nondeterministically returns one of the      *)
(* results its signature allows.                                            *)
(***************************************************************************)
EXTENDS Integers, Sequences, FiniteSets, TLC

\* ------------------------------------------------------------------ bounds

\* Longest umountPoints list explored for umount on its own.
MaxPoints == 2

\* Longest umountPoints list explored for a whole CleanupContainer run.
MaxCleanupPoints == 1

\* Longest list of overlay descriptions given to WrapWithOverlays.
MaxOverlays == 2

\* ------------------------------------------------------- program constants

\* "retries < 10" in umount.
MaxRetries == 10

\* syscall.MNT_DETACH, the flag of a lazy unmount.
MNT_DETACH == 2

\* ------------------------------------------------------------------ values

\* The results syscall.Unmount can give: success, "not a mount point",
\* "device busy", and EPERM standing for every other failure.
Errnos == {"OK", "EINVAL", "EBUSY", "EPERM"}

\* Effective capability sets a caller of umount may hold; a set of
\* capability names models the uint64 bit mask.
InitialEffective == {{}, {"CAP_SYS_ADMIN", "CAP_DAC_OVERRIDE"}}

\* The mount points registered during setup, in mount order.
AllPoints == <<"/session/rootfs", "/session/final", "/session/overlay">>

\* Error values of umount's named return value err.
Nil == [kind |-> "nil", errno |-> "OK", at |-> ""]

ErrnoErr(e) == [kind |-> "errno", errno |-> e, at |-> ""]

WrappedErr(p, e) == [kind |-> "wrapped", errno |-> e, at |-> p]

CapErr(which) == [kind |-> "capset", errno |-> "EPERM", at |-> which]

\* (uid, euid) pairs of the master process: root, an unprivileged user, and a
\* setuid start that still holds effective uid 0.
Ids == {<<0, 0>>, <<1000, 1000>>, <<1000, 0>>}

\* ------------------------------------------------------------------- state

VARIABLES
    \* EngineConfig, read-only during cleanup
    cfg,
    \* os.Getuid() and os.Geteuid() of the master process
    uid, euid,
    \* global cleanup registries
    umountPoints, networkSetup, cgroupsManager, cryptDev,
    \* CleanupContainer: position, local "privileged", returned error
    pc, privileged, ret,
    \* history of CleanupContainer: steps attempted in order, steps that failed,
    \* how the temp dir was removed, priv.Escalate / priv.Drop calls
    trace, failed, removal, escalations, drops,
    \* umount: position, arguments and locals
    upc, umountFlags, i, retries, err, oldEffective,
    \* process state touched by umount
    effective, locked,
    \* history of the running umount call
    status, cur, nCalls, nBusy, allBenign, raiseOk, restoreOk, restoreCalls,
    snapshot, pointsAtEntry, lockedAtRaise, lastErrno,
    \* the OCI launcher's wrappers: which one runs, its position, its
    \* argument overlayPaths, whether singularity.conf is loaded, the locals
    \* ovs and err, the returned error
    wname, wpc, overlayPaths, confInit, ovs, werr, wret,
    \* history of the wrapper: events in order, what f returned, how often f
    \* ran, the cleanup's error, the paths of a rejected list
    wtrace, fResult, fCalls, cleanupErr, rejected,
    \* whether the wrapper's prepare step has succeeded
    prepared,
    \* the starter: C.goexecute, the shared configuration C.sconfig (its
    \* fields and whether it is released), the positions of the startup
    \* goroutine and of the main goroutine, whether the main goroutine is
    \* locked to its thread, mainthread.FuncChannel, the locals pid and
    \* imageFd of startup
    goexecute, sconfig, spc, mpc, mainLocked, funcChannel, pid, imageFd,
    \* history of the starter: the calls of startup in order, the stage
    \* functions invoked, how the process ended
    strace, invoked, exitMsg,
    \* an overlay set: its read-only items and its writable item, whether
    \* the kernel supports unprivileged overlays, the mounts in place in the
    \* order they were made, the overlay composed at the rootfs directory,
    \* the contents of the test file in each source, the result of the last
    \* call
    oset, kernelSupport, mounts, overlay, files, setErr,
    \* history of the overlay set: the last operation, whether the set was
    \* mounted when it began, the contents last written through the root,
    \* the number of operations and of successful mounts, the targets of the
    \* last Mount and of the last Unmount in order
    lastOp, wasMounted, written, nOps, mountCount, mountOrder, umountOrder,
    \* a second call of CleanupContainer in the same process: whether it has
    \* begun, and the steps the first call attempted; the effective uid the
    \* process had when CleanupContainer was first called
    again, firstTrace, euidAtEntry,
    \* the OCI-SIF cache: the image stored under each entry name; the last
    \* call of PullOCISIF: its arguments, what its cache lookup found, the
    \* values it returned and the image at the returned path
    imgCache, pullOpts, cacheExists, imagePath, pullErr, pulled,
    \* OCI registry credentials: the auth files (no file, or the user stored
    \* for each server address); the running call of LoginAndStore: its
    \* position, its arguments, the configuration it loaded, the error it
    \* returned
    authFiles, lpc, largs, cf, lret,
    \* history of the call of LoginAndStore: the steps taken in order,
    \* whether the login check succeeded, the auth files at entry
    ltrace, checkOk, authFilesAtEntry,
    \* the user's remote configuration file; the running call of
    \* RegistryLogout: its position, its argument name, the configuration c
    \* it parsed, the error it returned
    confFile, opc, oname, oconf, oret,
    \* history of the call of RegistryLogout: the steps taken in order, the
    \* configuration file at entry
    otrace, confFileAtEntry

cleanupVars == <<cfg, uid, euid, umountPoints, networkSetup, cgroupsManager,
                 cryptDev, pc, privileged, ret, trace, failed, removal,
                 escalations, drops>>

umountLocals == <<upc, umountFlags, i, retries, err, oldEffective>>

umountHistory == <<status, cur, nCalls, nBusy, allBenign, raiseOk, restoreOk,
                   restoreCalls, snapshot, pointsAtEntry, lockedAtRaise,
                   lastErrno>>

umountVars == <<umountLocals, effective, locked, umountHistory>>

wrapVars == <<wname, wpc, overlayPaths, confInit, ovs, werr, wret, wtrace,
              fResult, fCalls, cleanupErr, rejected, prepared>>

starterVars == <<goexecute, sconfig, spc, mpc, mainLocked, funcChannel, pid,
                 imageFd, strace, invoked, exitMsg>>

setVars == <<oset, kernelSupport, mounts, overlay, files, setErr, lastOp,
             wasMounted, written, nOps, mountCount, mountOrder, umountOrder>>

\* What the engine's cleanup leaves alone, what the launcher's wrappers
\* leave alone, what the starter leaves alone and what an overlay set
\* leaves alone.
againVars == <<again, firstTrace, euidAtEntry>>

pullVars == <<imgCache, pullOpts, cacheExists, imagePath, pullErr, pulled>>

loginVars == <<authFiles, lpc, largs, cf, lret, ltrace, checkOk,
               authFilesAtEntry>>

logoutVars == <<confFile, opc, oname, oconf, oret, otrace, confFileAtEntry>>

outsideCleanup == <<wrapVars, starterVars, setVars, againVars, pullVars,
                     loginVars, logoutVars>>

outsideWrap == <<cleanupVars, umountVars, starterVars, setVars, againVars,
                  pullVars, loginVars, logoutVars>>

outsideStarter == <<cleanupVars, umountVars, wrapVars, setVars, againVars,
                     pullVars, loginVars, logoutVars>>

outsideSet == <<cleanupVars, umountVars, wrapVars, starterVars, againVars,
                 pullVars, loginVars, logoutVars>>

outsidePull == <<cleanupVars, umountVars, wrapVars, starterVars, setVars,
                  againVars, loginVars, logoutVars>>

outsideLogin == <<cleanupVars, umountVars, wrapVars, starterVars, setVars,
                   againVars, pullVars, logoutVars>>

outsideLogout == <<cleanupVars, umountVars, wrapVars, starterVars, setVars,
                    againVars, pullVars, loginVars>>

vars == <<cleanupVars, umountVars, wrapVars, starterVars, setVars, againVars,
           pullVars, loginVars, logoutVars>>

\* ------------------------------------------------------------------ umount

\* capabilities.SetProcessEffective(caps): on success the effective set
\* becomes caps and the previous set is returned; on failure nothing changes.
SetProcessEffective(current, caps, ok) ==
    [old |-> IF ok THEN current ELSE {},
     eff |-> IF ok THEN caps ELSE current,
     err |-> IF ok THEN Nil ELSE CapErr("set")]

\* caps := 0; caps |= 1 << CAP_SYS_ADMIN
UmountCaps == {"CAP_SYS_ADMIN"}

\* Mutation: every unmount pass detaches.
FlagsFor_Detach(lazy) == MNT_DETACH

\* umountFlags := 0; if lazy { umountFlags = MNT_DETACH }
FlagsFor(lazy) == IF lazy THEN MNT_DETACH ELSE 0

\* Mutation: every failure is retried like "device busy".
RetryAllowed_AnyErrno(e, r) == r < MaxRetries

\* Mutation: the retries counter is carried over to the next point.
RetriesAtPoint_Carried(r) == r

\* retries := 0, inside the loop body
RetriesAtPoint(r) == 0

\* Mutation: the loop starts at the front of the list.
FirstIndex_Front(points) == 0

\* for i := len(umountPoints) - 1; ...
FirstIndex(points) == Len(points) - 1

\* ...; i--
NextIndex(j) == j - 1

\* p := umountPoints[i]  (Go indexes from 0)
PointAt(points, j) == points[j + 1]

\* err != nil && err.(syscall.Errno) != syscall.EINVAL  is false
Ignored(e) == e = "OK" \/ e = "EINVAL"

\* Mutation: the retry budget is five.
RetryAllowed_Few(e, r) == e = "EBUSY" /\ r < 5

\* Mutation: off by one, "retries <= 10".
RetryAllowed_OneMore(e, r) == e = "EBUSY" /\ r <= MaxRetries

\* err.(syscall.Errno) == syscall.EBUSY && retries < 10
RetryAllowed(e, r) == e = "EBUSY" /\ r < MaxRetries

\* The value the deferred function passes to SetProcessEffective.
RestoreTarget == oldEffective

\* Mutation: the error of the raise is ignored and the loop runs.
AfterRaiseFailure_Ignored == "loop"

\* Where umount goes when raising the capabilities failed: "return err".
AfterRaiseFailure == "unlock"

\* Mutation: the fatal return leaves without restoring the capabilities.
AfterFatal_NoRestore == "unlock"

\* Where umount goes on "return fmt.Errorf(...)": the deferred restore runs.
AfterFatal == "restore"

\* The call umount(lazy): arguments, locals and history at entry.
UmountCall(lazy) ==
    /\ upc' = "lock"
    /\ umountFlags' = FlagsFor(lazy)
    /\ i' = -1
    /\ retries' = 0
    /\ err' = Nil
    /\ oldEffective' = {}
    /\ status' = [j \in 0..(Len(umountPoints) - 1) |-> "pending"]
    /\ cur' = -1
    /\ nCalls' = 0
    /\ nBusy' = 0
    /\ allBenign' = TRUE
    /\ raiseOk' = FALSE
    /\ restoreOk' = FALSE
    /\ restoreCalls' = 0
    /\ snapshot' = effective
    /\ pointsAtEntry' = umountPoints
    /\ lockedAtRaise' = FALSE
    /\ lastErrno' = "none"
    /\ UNCHANGED <<effective, locked>>

\* runtime.LockOSThread()
UmountLock ==
    /\ UNCHANGED outsideCleanup
    /\ upc = "lock"
    /\ locked' = TRUE
    /\ upc' = "raise"
    /\ UNCHANGED <<cleanupVars, umountFlags, i, retries, err, oldEffective,
                   effective, umountHistory>>

\* oldEffective, err = capabilities.SetProcessEffective(caps)
UmountRaise ==
    /\ UNCHANGED outsideCleanup
    /\ upc = "raise"
    /\ \E ok \in BOOLEAN :
          LET r == SetProcessEffective(effective, UmountCaps, ok) IN
          /\ oldEffective' = r.old
          /\ effective' = r.eff
          /\ err' = r.err
          /\ raiseOk' = ok
          /\ upc' = IF ok THEN "loop" ELSE AfterRaiseFailure
          /\ i' = IF ok THEN FirstIndex(umountPoints) ELSE i
    /\ lockedAtRaise' = locked
    /\ UNCHANGED <<cleanupVars, umountFlags, retries, locked, status, cur,
                   nCalls, nBusy, allBenign, restoreOk, restoreCalls, snapshot,
                   pointsAtEntry, lastErrno>>

\* Loop header: the next point gets a fresh retries counter; after the last
\* point the function reaches "return err".
UmountNextPoint ==
    /\ UNCHANGED outsideCleanup
    /\ upc = "loop"
    /\ IF i >= 0
          THEN /\ upc' = "syscall"
               /\ retries' = RetriesAtPoint(retries)
               /\ cur' = i
               /\ nCalls' = 0
               /\ nBusy' = 0
               /\ lastErrno' = "none"
          ELSE /\ upc' = "restore"
               /\ UNCHANGED <<retries, cur, nCalls, nBusy, lastErrno>>
    /\ UNCHANGED <<cleanupVars, umountFlags, i, err, oldEffective, effective,
                   locked, status, allBenign, raiseOk, restoreOk, restoreCalls,
                   snapshot, pointsAtEntry, lockedAtRaise>>

\* err = syscall.Unmount(p, umountFlags) and the classification of its result.
UmountSyscall ==
    /\ UNCHANGED outsideCleanup
    /\ upc = "syscall"
    /\ \E e \in Errnos :
          /\ lastErrno' = e
          /\ nCalls' = nCalls + 1
          /\ nBusy' = IF e = "EBUSY" THEN nBusy + 1 ELSE nBusy
          /\ allBenign' = (allBenign /\ e \in {"OK", "EINVAL"})
          /\ IF Ignored(e)
                THEN /\ err' = IF e = "OK" THEN Nil ELSE ErrnoErr(e)
                     /\ status' = [status EXCEPT
                                     ![i] = IF e = "OK" THEN "unmounted"
                                                        ELSE "notmount"]
                     /\ i' = NextIndex(i)
                     /\ upc' = "loop"
                     /\ UNCHANGED retries
                ELSE IF RetryAllowed(e, retries)
                THEN /\ retries' = retries + 1
                     /\ err' = ErrnoErr(e)
                     /\ upc' = "syscall"
                     /\ UNCHANGED <<status, i>>
                ELSE /\ err' = WrappedErr(PointAt(umountPoints, i), e)
                     /\ status' = [status EXCEPT ![i] = "fatal"]
                     /\ upc' = AfterFatal
                     /\ UNCHANGED <<retries, i>>
    /\ UNCHANGED <<cleanupVars, umountFlags, oldEffective, effective, locked,
                   cur, raiseOk, restoreOk, restoreCalls, snapshot,
                   pointsAtEntry, lockedAtRaise>>

\* Mutation: the result of the restore replaces the error being returned.
DeferredErr_Overwrites(current, e) == e

\* if err == nil { err = e }
DeferredErr(current, e) == IF current = Nil THEN e ELSE current

\* The deferred function: restore the effective set; its error is returned
\* only if err is still nil.
UmountRestore ==
    /\ UNCHANGED outsideCleanup
    /\ upc = "restore"
    /\ \E ok \in BOOLEAN :
          LET r == SetProcessEffective(effective, RestoreTarget, ok) IN
          /\ effective' = r.eff
          /\ err' = DeferredErr(err, r.err)
          /\ restoreOk' = ok
    /\ restoreCalls' = restoreCalls + 1
    /\ upc' = "unlock"
    /\ UNCHANGED <<cleanupVars, umountFlags, i, retries, oldEffective, locked,
                   status, cur, nCalls, nBusy, allBenign, raiseOk, snapshot,
                   pointsAtEntry, lockedAtRaise, lastErrno>>

\* defer runtime.UnlockOSThread(); umount has returned err.
UmountUnlock ==
    /\ UNCHANGED outsideCleanup
    /\ upc = "unlock"
    /\ locked' = FALSE
    /\ upc' = "returned"
    /\ UNCHANGED <<cleanupVars, umountFlags, i, retries, err, oldEffective,
                   effective, umountHistory>>

\* Locals and history of umount are dead once the caller has its result.
UmountForget ==
    /\ upc' = "idle"
    /\ umountFlags' = 0
    /\ i' = -1
    /\ retries' = 0
    /\ err' = Nil
    /\ oldEffective' = {}
    /\ status' = <<>>
    /\ cur' = -1
    /\ nCalls' = 0
    /\ nBusy' = 0
    /\ allBenign' = TRUE
    /\ raiseOk' = FALSE
    /\ restoreOk' = FALSE
    /\ restoreCalls' = 0
    /\ snapshot' = {}
    /\ pointsAtEntry' = <<>>
    /\ lockedAtRaise' = FALSE
    /\ lastErrno' = "none"
    /\ UNCHANGED <<effective, locked>>

\* -------------------------------------------------------- CleanupContainer

\* Mutation: a registry is emptied by the step that uses it.
RegistryAfter_Drained(value, empty) == empty

\* What a registry (networkSetup, cgroupsManager, cryptDev) holds after the
\* step that uses it: CleanupContainer assigns to none of them.
RegistryAfter(value, empty) == value

\* Mutation: the cgroup is destroyed before the network is detached.
StepOrder_Swapped ==
    <<"fuse", "lazy", "tempdir", "cgroup", "network", "crypt", "instance",
      "done">>

\* The steps of CleanupContainer in the order of its statements.
StepOrder ==
    <<"fuse", "lazy", "tempdir", "network", "cgroup", "crypt", "instance",
      "done">>

\* The statement that follows a step.
After(step) ==
    LET k == CHOOSE n \in 1..Len(StepOrder) : StepOrder[n] = step
    IN  StepOrder[k + 1]

\* Mutation: a failed step returns from CleanupContainer at once.
Continue_StopOnError(step, stepFailed) ==
    IF stepFailed THEN "done" ELSE After(step)

\* Where CleanupContainer goes after a step: a failure is logged
\* (sylog.Errorf / sylog.Warningf) and the next statement runs.
Continue(step, stepFailed) == After(step)

\* Mutation: the temporary directory is removed whatever the image-fuse
\* flag.
RemovesTempDir_AnyFuse == cfg.deleteTempDir # ""

\* tempDir != "" && !e.EngineConfig.GetImageFuse()
RemovesTempDir == cfg.deleteTempDir # "" /\ ~cfg.imageFuse

\* Mutation: the effective uid decides on the fakeroot helper.
UsesFakerootCleanup_Euid == cfg.fakeroot /\ euid # 0

\* e.EngineConfig.GetFakeroot() && os.Getuid() != 0
UsesFakerootCleanup == cfg.fakeroot /\ uid # 0

\* Mutation: the real uid decides on the escalation.
NeedsEscalation_Uid == cfg.network # "none" /\ uid # 0

\* net != "none" && os.Geteuid() != 0
NeedsEscalation == cfg.network # "none" /\ euid # 0

\* priv.Escalate(): the effective uid becomes 0.
PrivEscalate == 0

\* priv.Drop(): the effective uid is the real uid again.
PrivDrop == uid

\* Mutation: the last statement returns an error if some step failed.
ReturnWithoutInstance_LastError ==
    IF failed # {} THEN "errCleanupStep" ELSE "nil"

\* "return nil", the last statement.
ReturnWithoutInstance == "nil"

\* "return err" after instance.Get failed, else "return file.Delete()".
ReturnOfInstance(getOk, deleteOk) ==
    IF ~getOk THEN "errInstanceGet"
    ELSE IF ~deleteOk THEN "errInstanceDelete"
    ELSE "nil"

Note(step, stepFailed) == IF stepFailed THEN failed \cup {step} ELSE failed

\* e.stopFuseDrivers(): it returns nothing, so CleanupContainer sees no
\* failure of it.
StopFuseDrivers ==
    /\ UNCHANGED outsideCleanup
    /\ pc = "fuse"
    /\ trace' = Append(trace, "fuse")
    /\ pc' = Continue("fuse", FALSE)
    /\ UNCHANGED <<cfg, uid, euid, umountPoints, networkSetup, cgroupsManager,
                   cryptDev, privileged, ret, failed, removal, escalations,
                   drops, umountVars>>

\* if e.EngineConfig.GetImageFuse() { umount(true) }: the call.
LazyUmount ==
    /\ UNCHANGED outsideCleanup
    /\ pc = "lazy"
    /\ upc = "idle"
    /\ IF cfg.imageFuse
          THEN /\ trace' = Append(trace, "lazy")
               /\ UmountCall(TRUE)
               /\ pc' = "lazy_ret"
          ELSE /\ pc' = After("lazy")
               /\ UNCHANGED <<trace, umountVars>>
    /\ UNCHANGED <<cfg, uid, euid, umountPoints, networkSetup, cgroupsManager,
                   cryptDev, privileged, ret, failed, removal, escalations,
                   drops>>

\* ... its return: if err != nil { sylog.Errorf }
LazyUmountReturn ==
    /\ UNCHANGED outsideCleanup
    /\ pc = "lazy_ret"
    /\ upc = "returned"
    /\ failed' = Note("lazy", err # Nil)
    /\ pc' = Continue("lazy", err # Nil)
    /\ UmountForget
    /\ UNCHANGED <<cfg, uid, euid, umountPoints, networkSetup, cgroupsManager,
                   cryptDev, privileged, ret, trace, removal, escalations,
                   drops>>

\* Removal of the image's temporary directory, by fakerootCleanup or
\* os.RemoveAll.
RemoveTempDir ==
    /\ UNCHANGED outsideCleanup
    /\ pc = "tempdir"
    /\ IF RemovesTempDir
          THEN /\ trace' = Append(trace, "tempdir")
               /\ removal' = IF UsesFakerootCleanup THEN "fakerootCleanup"
                                                    ELSE "RemoveAll"
               /\ \E ok \in BOOLEAN :
                     /\ failed' = Note("tempdir", ~ok)
                     /\ pc' = Continue("tempdir", ~ok)
          ELSE /\ pc' = After("tempdir")
               /\ UNCHANGED <<trace, removal, failed>>
    /\ UNCHANGED <<cfg, uid, euid, umountPoints, networkSetup, cgroupsManager,
                   cryptDev, privileged, ret, escalations, drops, umountVars>>

\* if networkSetup != nil: privileged := false; priv.Escalate() if needed.
NetworkEscalate ==
    /\ UNCHANGED outsideCleanup
    /\ pc = "network"
    /\ IF networkSetup # "nil"
          THEN /\ trace' = Append(trace, "network")
               /\ privileged' = NeedsEscalation
               /\ euid' = IF NeedsEscalation THEN PrivEscalate ELSE euid
               /\ escalations' = IF NeedsEscalation THEN escalations + 1
                                                    ELSE escalations
               /\ pc' = "net_del"
          ELSE /\ pc' = After("network")
               /\ UNCHANGED <<trace, privileged, euid, escalations>>
    /\ UNCHANGED <<cfg, uid, umountPoints, networkSetup, cgroupsManager,
                   cryptDev, ret, failed, removal, drops, umountVars>>

\* networkSetup.DelNetworks(ctx)
NetworkDel ==
    /\ UNCHANGED outsideCleanup
    /\ pc = "net_del"
    /\ \E ok \in BOOLEAN :
          /\ failed' = Note("network", ~ok)
          /\ pc' = IF Continue("network", ~ok) = After("network")
                      THEN "net_drop" ELSE Continue("network", ~ok)
    /\ networkSetup' = RegistryAfter(networkSetup, "nil")
    /\ UNCHANGED <<cfg, uid, euid, umountPoints, cgroupsManager,
                   cryptDev, privileged, ret, trace, removal, escalations,
                   drops, umountVars>>

\* if privileged { priv.Drop() }
NetworkDrop ==
    /\ UNCHANGED outsideCleanup
    /\ pc = "net_drop"
    /\ euid' = IF privileged THEN PrivDrop ELSE euid
    /\ drops' = IF privileged THEN drops + 1 ELSE drops
    /\ privileged' = FALSE
    /\ pc' = After("network")
    /\ UNCHANGED <<cfg, uid, umountPoints, networkSetup, cgroupsManager,
                   cryptDev, ret, trace, failed, removal, escalations,
                   umountVars>>

\* if cgroupsManager != nil { cgroupsManager.Destroy() }
DestroyCgroup ==
    /\ UNCHANGED outsideCleanup
    /\ pc = "cgroup"
    /\ IF cgroupsManager # "nil"
          THEN /\ trace' = Append(trace, "cgroup")
               /\ \E ok \in BOOLEAN :
                     /\ failed' = Note("cgroup", ~ok)
                     /\ pc' = Continue("cgroup", ~ok)
          ELSE /\ pc' = After("cgroup")
               /\ UNCHANGED <<trace, failed>>
    /\ cgroupsManager' = RegistryAfter(cgroupsManager, "nil")
    /\ UNCHANGED <<cfg, uid, euid, umountPoints, networkSetup,
                   cryptDev, privileged, ret, removal, escalations, drops,
                   umountVars>>

\* if cryptDev != "" { cleanupCrypt(cryptDev) }: the strict umount(false).
CleanupCrypt ==
    /\ UNCHANGED outsideCleanup
    /\ pc = "crypt"
    /\ upc = "idle"
    /\ IF cryptDev # ""
          THEN /\ trace' = Append(trace, "crypt")
               /\ UmountCall(FALSE)
               /\ pc' = "crypt_ret"
          ELSE /\ pc' = After("crypt")
               /\ UNCHANGED <<trace, umountVars>>
    /\ UNCHANGED <<cfg, uid, euid, umountPoints, networkSetup, cgroupsManager,
                   cryptDev, privileged, ret, failed, removal, escalations,
                   drops>>

\* Mutation: the device is closed whatever umount returned.
ReturnsUmountError_Never(e) == FALSE

\* if err := umount(false); err != nil { return err }
ReturnsUmountError(e) == e # Nil

\* cleanupCrypt after umount(false): return its error, else close the device.
CleanupCryptClose ==
    /\ UNCHANGED outsideCleanup
    /\ pc = "crypt_ret"
    /\ upc = "returned"
    /\ IF ReturnsUmountError(err)
          THEN /\ failed' = Note("crypt", TRUE)
               /\ pc' = Continue("crypt", TRUE)
               /\ UNCHANGED trace
          ELSE /\ trace' = Append(trace, "crypt_close")
               /\ \E ok \in BOOLEAN :
                     /\ failed' = Note("crypt", ~ok)
                     /\ pc' = Continue("crypt", ~ok)
    /\ UmountForget
    /\ cryptDev' = RegistryAfter(cryptDev, "")
    /\ UNCHANGED <<cfg, uid, euid, umountPoints, networkSetup, cgroupsManager,
                   privileged, ret, removal, escalations, drops>>

\* if e.EngineConfig.GetInstance() { instance.Get; return file.Delete() }
\* return nil
DeleteInstance ==
    /\ UNCHANGED outsideCleanup
    /\ pc = "instance"
    /\ IF cfg.instance
          THEN /\ trace' = Append(trace, "instance")
               /\ \E getOk, deleteOk \in BOOLEAN :
                     /\ ret' = ReturnOfInstance(getOk, deleteOk)
                     /\ failed' =
                           IF ~getOk THEN Note("instanceGet", TRUE)
                           ELSE Note("instanceDelete", ~deleteOk)
          ELSE /\ ret' = ReturnWithoutInstance
               /\ UNCHANGED <<trace, failed>>
    /\ pc' = "done"
    /\ UNCHANGED <<cfg, uid, euid, umountPoints, networkSetup, cgroupsManager,
                   cryptDev, privileged, removal, escalations, drops,
                   umountVars>>

\* ------------------------------------------------------------ specification

\* tools.OverlaySet{}
EmptyOverlaySet == [WritableLoc |-> <<>>, ReadonlyLocs |-> <<>>]

\* No wrapper of the OCI launcher is running.
\* The source paths of overlay items, already resolved: two directories, an
\* image, a writable directory.
Sources == {"/ro1", "/ro2", "/img.sqfs", "/rw"}

\* No overlay is composed at the rootfs directory.
NoOverlay == [lower |-> <<>>, upper |-> "", impl |-> "none"]

\* The image digests a registry can report, as ggcrv1.Hash.String() prints
\* them: the algorithm, a colon, the hex digits.
Digests ==
    { <<"s", "h", "a", "2", "5", "6", ":", "0", "f">>,
      <<"s", "h", "a", "2", "5", "6", ":", "f", "0">>,
      <<"s", "h", "a", "5", "1", "2", ":", "0", "f", "a">> }

\* cacheSuffixMultiLayer = ".ml"
cacheSuffixMultiLayer == <<".", "m", "l">>

\* Mutation: no suffix for multi-layer images.
CacheSuffix_None(keepLayers) == <<>>

\* cacheSuffix := ""; if opts.KeepLayers { cacheSuffix = cacheSuffixMultiLayer }
CacheSuffix(keepLayers) == IF keepLayers THEN cacheSuffixMultiLayer ELSE <<>>

\* hash.String() + cacheSuffix
CacheName(digest, keepLayers) == digest \o CacheSuffix(keepLayers)

\* The entry names PullOCISIF can ask the cache for.
CacheNames == {CacheName(d, k) : d \in Digests, k \in BOOLEAN}

\* No image: an entry that does not exist, a call that returned an error.
NoImage == [digest |-> <<>>, keepLayers |-> FALSE, made |-> FALSE]

\* The OCI-SIF that createOciSif writes for a request.
ImageFor(digest, keepLayers) ==
    [digest |-> digest, keepLayers |-> keepLayers, made |-> TRUE]

\* No call of PullOCISIF so far.
NoPull == [digest |-> <<>>, KeepLayers |-> FALSE, directTo |-> <<>>]

\* The OCI-SIF cache is empty and PullOCISIF was not called.
PullIdle ==
    /\ imgCache = [name \in CacheNames |-> NoImage]
    /\ pullOpts = NoPull
    /\ cacheExists = FALSE
    /\ imagePath = <<>>
    /\ pullErr = "unset"
    /\ pulled = NoImage

\* syfs.DockerConf(): the default location of the OCI registry auth file.
DockerConf == "~/.singularity/docker-config.json"

\* The auth files a call can name, and the registries and users it can
\* log in.
AuthPaths == {DockerConf, "/req/auth.json"}

\* name.DefaultRegistry and authn.DefaultAuthKey
DefaultRegistry == "index.docker.io"

DefaultAuthKey == "https://index.docker.io/v1/"

Registries == {DefaultRegistry, "registry.example"}

Users == {"alice", "bob"}

\* DockerHub requires special logic: serverAddress := registry; if
\* serverAddress == name.DefaultRegistry { serverAddress = DefaultAuthKey }
ServerAddress(registry) ==
    IF registry = DefaultRegistry THEN DefaultAuthKey ELSE registry

ServerAddresses == {ServerAddress(r) : r \in Registries}

\* The configuration of configfile.New(path), a path with no file, and a
\* file that holds a configuration.
EmptyConfig == [a \in ServerAddresses |-> ""]

NoFile == [exists |-> FALSE, auths |-> EmptyConfig]

FileOf(auths) == [exists |-> TRUE, auths |-> auths]

\* No call of LoginAndStore is running and no auth file exists.
LoginIdle ==
    /\ authFiles = [p \in AuthPaths |-> NoFile]
    /\ lpc = "idle"
    /\ largs = [registry |-> "", username |-> "", reqAuthFile |-> ""]
    /\ cf = [Filename |-> "", auths |-> EmptyConfig]
    /\ lret = "unset"
    /\ ltrace = <<>>
    /\ checkOk = FALSE
    /\ authFilesAtEntry = [p \in AuthPaths |-> NoFile]

\* The registries a remote configuration can hold credentials for.
RegistryNames == {"docker.io", "registry.example"}

\* The configuration file: absent; present and empty; present and holding
\* a configuration that parses; present with contents that do not parse.
AbsentFile == [exists |-> FALSE, parses |-> FALSE, registries |-> {}]

EmptyFile == [exists |-> TRUE, parses |-> TRUE, registries |-> {}]

ConfigFile(registries) ==
    [exists |-> TRUE, parses |-> TRUE, registries |-> registries]

BrokenFile == [exists |-> TRUE, parses |-> FALSE, registries |-> {}]

\* No call of RegistryLogout is running and there is no configuration file.
LogoutIdle ==
    /\ confFile = AbsentFile
    /\ opc = "idle"
    /\ oname = ""
    /\ oconf = {}
    /\ oret = "unset"
    /\ otrace = <<>>
    /\ confFileAtEntry = AbsentFile

\* No overlay set is in use.
SetIdle ==
    /\ oset = [ReadonlyOverlays |-> <<>>, WritableOverlay |-> ""]
    /\ kernelSupport = TRUE
    /\ mounts = <<>>
    /\ overlay = NoOverlay
    /\ files = [src \in Sources |-> ""]
    /\ setErr = "unset"
    /\ lastOp = "none"
    /\ wasMounted = FALSE
    /\ written = ""
    /\ nOps = 0
    /\ mountCount = 0
    /\ mountOrder = <<>>
    /\ umountOrder = <<>>

\* The shared starter configuration before anything reads it.
SharedConfig(containerPid, fd) ==
    [containerPid |-> containerPid, imageFd |-> fd, released |-> FALSE]

\* No starter process runs.
StarterIdle ==
    /\ goexecute = "none"
    /\ sconfig = SharedConfig(0, -1)
    /\ spc = "idle"
    /\ mpc = "idle"
    /\ mainLocked = FALSE
    /\ funcChannel = <<>>
    /\ pid = 0
    /\ imageFd = -1
    /\ strace = <<>>
    /\ invoked = <<>>
    /\ exitMsg = ""

WrapIdle ==
    /\ wname = "none"
    /\ wpc = "idle"
    /\ overlayPaths = <<>>
    /\ confInit = TRUE
    /\ ovs = EmptyOverlaySet
    /\ werr = "nil"
    /\ wret = "unset"
    /\ wtrace = <<>>
    /\ fResult = "unset"
    /\ fCalls = 0
    /\ cleanupErr = "unset"
    /\ rejected = <<>>
    /\ prepared = FALSE

\* umount is not running.
UmountIdle ==
    /\ locked = FALSE
    /\ upc = "idle"
    /\ umountFlags = 0
    /\ i = -1
    /\ retries = 0
    /\ err = Nil
    /\ oldEffective = {}
    /\ status = <<>>
    /\ cur = -1
    /\ nCalls = 0
    /\ nBusy = 0
    /\ allBenign = TRUE
    /\ raiseOk = FALSE
    /\ restoreOk = FALSE
    /\ restoreCalls = 0
    /\ snapshot = {}
    /\ pointsAtEntry = <<>>
    /\ lockedAtRaise = FALSE
    /\ lastErrno = "none"

\* CleanupContainer has not started: nothing attempted, nothing returned.
\* CleanupContainer has been called once at most.
AgainIdle ==
    /\ again = FALSE
    /\ firstTrace = <<>>
    /\ euidAtEntry = euid

CleanupFresh ==
    /\ privileged = FALSE
    /\ ret = "unset"
    /\ trace = <<>>
    /\ failed = {}
    /\ removal = "none"
    /\ escalations = 0
    /\ drops = 0

\* Inputs CleanupContainer never reads are left at one value: the fakeroot
\* flag is read only where the temporary directory is removed, the network
\* only when there is a network setup, the real uid only with the fakeroot
\* flag and the effective uid only with a network.
InputsAreRead ==
    /\ cfg.fakeroot => (cfg.deleteTempDir # "" /\ ~cfg.imageFuse)
    /\ cfg.network # "none" => networkSetup # "nil"
    /\ <<uid, euid>> # <<0, 0>> => (cfg.fakeroot \/ cfg.network # "none")

\* The master process when MonitorContainer has returned: any engine
\* configuration, any registries left by setup.
Init ==
    /\ cfg \in [imageFuse : BOOLEAN, deleteTempDir : {"", "/tmp/rootfs-1"},
                fakeroot : BOOLEAN, network : {"none", "bridge"},
                instance : BOOLEAN]
    /\ \E id \in Ids : uid = id[1] /\ euid = id[2]
    /\ \E n \in 0..MaxCleanupPoints : umountPoints = SubSeq(AllPoints, 1, n)
    /\ networkSetup \in {"nil", "set"}
    /\ cgroupsManager \in {"nil", "set"}
    /\ cryptDev \in {"", "/dev/mapper/crypt0"}
    /\ InputsAreRead
    /\ effective = {}
    /\ pc = "fuse"
    /\ CleanupFresh
    /\ UmountIdle
    /\ AgainIdle
    /\ LogoutIdle
    /\ LoginIdle
    /\ PullIdle
    /\ SetIdle
    /\ StarterIdle
    /\ WrapIdle

Next ==
    \/ StopFuseDrivers
    \/ LazyUmount
    \/ LazyUmountReturn
    \/ RemoveTempDir
    \/ NetworkEscalate
    \/ NetworkDel
    \/ NetworkDrop
    \/ DestroyCgroup
    \/ CleanupCrypt
    \/ CleanupCryptClose
    \/ DeleteInstance
    \/ UmountLock
    \/ UmountRaise
    \/ UmountNextPoint
    \/ UmountSyscall
    \/ UmountRestore
    \/ UmountUnlock

Spec == Init /\ [][Next]_vars

\* The master process of a container without temporary directory and
\* without instance file, run by an ordinary user.
InitAgain ==
    /\ \E fuse \in BOOLEAN, net \in {"none", "bridge"} :
          cfg = [imageFuse |-> fuse, deleteTempDir |-> "", fakeroot |-> FALSE,
                 network |-> net, instance |-> FALSE]
    /\ uid = 1000
    /\ euid = 1000
    /\ \E n \in 0..MaxCleanupPoints : umountPoints = SubSeq(AllPoints, 1, n)
    /\ networkSetup \in {"nil", "set"}
    /\ cgroupsManager \in {"nil", "set"}
    /\ cryptDev \in {"", "/dev/mapper/crypt0"}
    /\ effective = {}
    /\ pc = "fuse"
    /\ CleanupFresh
    /\ UmountIdle
    /\ AgainIdle
    /\ LogoutIdle
    /\ LoginIdle
    /\ PullIdle
    /\ SetIdle
    /\ StarterIdle
    /\ WrapIdle

\* CleanupContainer is called a second time in the same process, with the
\* registries as the first call left them.
CleanupAgain ==
    /\ UNCHANGED <<wrapVars, starterVars, setVars, pullVars, loginVars,
                   logoutVars>>
    /\ pc = "done"
    /\ ~again
    /\ again' = TRUE
    /\ firstTrace' = trace
    /\ UNCHANGED euidAtEntry
    /\ pc' = "fuse"
    /\ privileged' = FALSE
    /\ ret' = "unset"
    /\ trace' = <<>>
    /\ failed' = {}
    /\ removal' = "none"
    /\ escalations' = 0
    /\ drops' = 0
    /\ UNCHANGED <<cfg, uid, euid, umountPoints, networkSetup, cgroupsManager,
                   cryptDev, umountVars>>

NextAgain ==
    \/ Next
    \/ CleanupAgain

SpecAgain == InitAgain /\ [][NextAgain]_vars

\* ------------------------------------------------------ the OCI-SIF cache

\* The file a caller can ask PullOCISIF to write to instead of the cache.
DirectFile == <<"/", "t", "m", "p", "/", "o", "u", "t">>

\* cacheEntry.Path: the entry name inside the OCI-SIF cache directory.
EntryPath(name) == <<"o", "c", "i", "-", "s", "i", "f", "/">> \o name

\* imgCache.GetEntry(cache.OciSifCacheType, name): Exists says whether the
\* cache holds a file of that name.
GetEntry(name) ==
    [Exists |-> imgCache[name] # NoImage, Path |-> EntryPath(name)]

\* cacheEntry.Finalize(): the image written to TmpPath becomes the entry.
Finalize(name, image) == [imgCache EXCEPT ![name] = image]

\* The steps of PullOCISIF that can fail.
PullFailures == {"none", "ParseImageRef", "ImageDigest", "GetEntry",
                 "createOciSif", "Finalize"}

\* PullOCISIF returns "", err.
PullFails(e) ==
    /\ imagePath' = <<>>
    /\ pullErr' = e
    /\ pulled' = NoImage

\* PullOCISIF(ctx, imgCache, directTo, pullFrom, opts): pullFrom resolves to
\* a digest; with directTo the image is created there, else it is taken from
\* the cache entry of the digest and of opts.KeepLayers, created first if
\* the entry does not exist.
PullOCISIF ==
    /\ UNCHANGED outsidePull
    /\ \E digest \in Digests, keepLayers \in BOOLEAN,
          directTo \in {<<>>, DirectFile}, fails \in PullFailures :
          LET name == CacheName(digest, keepLayers)
              entry == GetEntry(name)
              image == ImageFor(digest, keepLayers)
          IN  /\ pullOpts' = [digest |-> digest, KeepLayers |-> keepLayers,
                              directTo |-> directTo]
              /\ IF fails \in {"ParseImageRef", "ImageDigest"}
                    THEN /\ PullFails(fails)
                         /\ UNCHANGED <<imgCache, cacheExists>>
                    ELSE IF directTo # <<>>
                    THEN /\ UNCHANGED <<imgCache, cacheExists>>
                         /\ IF fails = "createOciSif"
                               THEN PullFails(fails)
                               ELSE /\ imagePath' = directTo
                                    /\ pullErr' = "nil"
                                    /\ pulled' = image
                    ELSE IF fails = "GetEntry"
                    THEN /\ PullFails(fails)
                         /\ UNCHANGED <<imgCache, cacheExists>>
                    ELSE /\ cacheExists' = entry.Exists
                         /\ IF entry.Exists
                               THEN /\ imagePath' = entry.Path
                                    /\ pullErr' = "nil"
                                    /\ pulled' = imgCache[name]
                                    /\ UNCHANGED imgCache
                               ELSE IF fails \in {"createOciSif", "Finalize"}
                               THEN /\ PullFails(fails)
                                    /\ UNCHANGED imgCache
                               ELSE /\ imgCache' = Finalize(name, image)
                                    /\ imagePath' = entry.Path
                                    /\ pullErr' = "nil"
                                    /\ pulled' = image

\* A process with an empty OCI-SIF cache, about to pull.
InitPull ==
    /\ cfg = [imageFuse |-> FALSE, deleteTempDir |-> "", fakeroot |-> FALSE,
              network |-> "none", instance |-> FALSE]
    /\ uid = 0
    /\ euid = 0
    /\ umountPoints = <<>>
    /\ networkSetup = "nil"
    /\ cgroupsManager = "nil"
    /\ cryptDev = ""
    /\ effective = {}
    /\ pc = "none"
    /\ CleanupFresh
    /\ UmountIdle
    /\ AgainIdle
    /\ LogoutIdle
    /\ LoginIdle
    /\ SetIdle
    /\ StarterIdle
    /\ WrapIdle
    /\ PullIdle

NextPull == PullOCISIF

SpecPull == InitPull /\ [][NextPull]_vars

\* ------------------------------------------- OCI registry credentials

\* ChooseAuthFile: reqAuthFile if it is not empty, else the default location.
ChooseAuthFile(reqAuthFile) ==
    IF reqAuthFile # "" THEN reqAuthFile ELSE DockerConf

\* fs.IsFile(path)
IsFile(path) == authFiles[path].exists

\* Mutation: the credentials are stored whatever the login check said.
AfterCheck_Unchecked(ok) == "load"

\* if err := checkOCILogin(...); err != nil { return err }
AfterCheck(ok) == IF ok THEN "load" ELSE "returned"

\* LoginAndStore(registry, username, password, insecure, reqAuthFile) is
\* called; an earlier call has returned.
LoginCall ==
    /\ UNCHANGED outsideLogin
    /\ lpc \in {"idle", "returned"}
    /\ \E registry \in Registries, username \in Users,
          reqAuthFile \in {"", "/req/auth.json"} :
          largs' = [registry |-> registry, username |-> username,
                    reqAuthFile |-> reqAuthFile]
    /\ lpc' = "check"
    /\ cf' = [Filename |-> "", auths |-> EmptyConfig]
    /\ lret' = "unset"
    /\ ltrace' = <<>>
    /\ checkOk' = FALSE
    /\ authFilesAtEntry' = authFiles
    /\ UNCHANGED authFiles

\* checkOCILogin: name.NewRegistry, then transport.NewWithContext pings the
\* registry and works through the auth flow; the first error is returned.
LoginCheck ==
    /\ UNCHANGED outsideLogin
    /\ lpc = "check"
    /\ ltrace' = Append(ltrace, "check")
    /\ \E result \in {"nil", "errNewRegistry", "errTransport"} :
          /\ checkOk' = (result = "nil")
          /\ lpc' = AfterCheck(result = "nil")
          /\ lret' = IF AfterCheck(result = "nil") = "returned"
                        THEN result ELSE lret
    /\ UNCHANGED <<authFiles, largs, cf, authFilesAtEntry>>

\* cf, err := ConfigFileFromPath(ChooseAuthFile(reqAuthFile)): a new
\* configuration, replaced by the contents of the file if there is one.
LoginLoad ==
    /\ UNCHANGED outsideLogin
    /\ lpc = "load"
    /\ ltrace' = Append(ltrace, "load")
    /\ LET path == ChooseAuthFile(largs.reqAuthFile) IN
       IF IsFile(path)
          THEN \E ok \in BOOLEAN :
                  IF ok
                     THEN /\ cf' = [Filename |-> path,
                                     auths |-> authFiles[path].auths]
                          /\ lpc' = "store"
                          /\ UNCHANGED lret
                     ELSE /\ lret' = "errLoad"
                          /\ lpc' = "returned"
                          /\ UNCHANGED cf
          ELSE /\ cf' = [Filename |-> path, auths |-> EmptyConfig]
               /\ lpc' = "store"
               /\ UNCHANGED lret
    /\ UNCHANGED <<authFiles, largs, checkOk, authFilesAtEntry>>

\* creds := cf.GetCredentialsStore(registry); creds.Store(AuthConfig{...}):
\* the credentials are put under the server address and the file is saved.
LoginStore ==
    /\ UNCHANGED outsideLogin
    /\ lpc = "store"
    /\ ltrace' = Append(ltrace, "store")
    /\ \E ok \in BOOLEAN :
          IF ok
             THEN /\ cf' = [cf EXCEPT !.auths[ServerAddress(largs.registry)]
                                         = largs.username]
                  /\ authFiles' = [authFiles EXCEPT
                                      ![cf.Filename] = FileOf(cf'.auths)]
                  /\ lret' = "nil"
             ELSE /\ lret' = "errStore"
                  /\ UNCHANGED <<cf, authFiles>>
    /\ lpc' = "returned"
    /\ UNCHANGED <<largs, checkOk, authFilesAtEntry>>

\* A process about to log in to registries, with no auth file yet.
InitLogin ==
    /\ cfg = [imageFuse |-> FALSE, deleteTempDir |-> "", fakeroot |-> FALSE,
              network |-> "none", instance |-> FALSE]
    /\ uid = 0
    /\ euid = 0
    /\ umountPoints = <<>>
    /\ networkSetup = "nil"
    /\ cgroupsManager = "nil"
    /\ cryptDev = ""
    /\ effective = {}
    /\ pc = "none"
    /\ CleanupFresh
    /\ UmountIdle
    /\ AgainIdle
    /\ LogoutIdle
    /\ PullIdle
    /\ SetIdle
    /\ StarterIdle
    /\ WrapIdle
    /\ LoginIdle

NextLogin ==
    \/ LoginCall
    \/ LoginCheck
    \/ LoginLoad
    \/ LoginStore

SpecLogin == InitLogin /\ [][NextLogin]_vars

\* ----------------------------------------------------- registry logout

\* Mutation: the error of a step is not checked.
OnError_Ignored(ok, next) == next

\* if err != nil { return ... } after a step of RegistryLogout; next is the
\* step that follows.
OnError(ok, next) == IF ok THEN next ELSE "returned"

\* One step of RegistryLogout that succeeds or fails with error e.
LogoutStep(step, ok, e, next) ==
    /\ otrace' = Append(otrace, step)
    /\ opc' = OnError(ok, next)
    /\ oret' = IF ok THEN oret ELSE e

\* RegistryLogout(usrConfigFile, name) is called; an earlier call has
\* returned.
LogoutCall ==
    /\ UNCHANGED outsideLogout
    /\ opc \in {"idle", "returned"}
    /\ oname' \in RegistryNames
    /\ opc' = "open"
    /\ oconf' = {}
    /\ oret' = "unset"
    /\ otrace' = <<>>
    /\ confFileAtEntry' = confFile
    /\ UNCHANGED confFile

\* os.OpenFile(usrConfigFile, os.O_RDWR|os.O_CREATE, 0o600): a missing file
\* is created empty.
LogoutOpen ==
    /\ UNCHANGED outsideLogout
    /\ opc = "open"
    /\ \E ok \in BOOLEAN :
          /\ LogoutStep("OpenFile", ok, "errOpen", "read")
          /\ confFile' = IF ok /\ ~confFile.exists THEN EmptyFile ELSE confFile
    /\ UNCHANGED <<oname, oconf, confFileAtEntry>>

\* c, err := remote.ReadFrom(file)
LogoutRead ==
    /\ UNCHANGED outsideLogout
    /\ opc = "read"
    /\ \E ok \in BOOLEAN :
          /\ ok => confFile.parses
          /\ LogoutStep("ReadFrom", ok, "errParse", "sync")
          /\ oconf' = IF ok THEN confFile.registries ELSE oconf
    /\ UNCHANGED <<confFile, oname, confFileAtEntry>>

\* syncSysConfig(c)
LogoutSyncSysConfig ==
    /\ UNCHANGED outsideLogout
    /\ opc = "sync"
    /\ \E ok \in BOOLEAN : LogoutStep("syncSysConfig", ok, "errSync", "logout")
    /\ UNCHANGED <<confFile, oname, oconf, confFileAtEntry>>

\* c.Logout(name)
LogoutLogout ==
    /\ UNCHANGED outsideLogout
    /\ opc = "logout"
    /\ \E ok \in BOOLEAN :
          /\ LogoutStep("Logout", ok, "errLogout", "truncate")
          /\ oconf' = IF ok THEN oconf \ {oname} ELSE oconf
    /\ UNCHANGED <<confFile, oname, confFileAtEntry>>

\* file.Truncate(0)
LogoutTruncate ==
    /\ UNCHANGED outsideLogout
    /\ opc = "truncate"
    /\ \E ok \in BOOLEAN :
          /\ LogoutStep("Truncate", ok, "errTruncate", "seek")
          /\ confFile' = IF ok THEN EmptyFile ELSE confFile
    /\ UNCHANGED <<oname, oconf, confFileAtEntry>>

\* file.Seek(0, io.SeekStart)
LogoutSeek ==
    /\ UNCHANGED outsideLogout
    /\ opc = "seek"
    /\ \E ok \in BOOLEAN : LogoutStep("Seek", ok, "errSeek", "write")
    /\ UNCHANGED <<confFile, oname, oconf, confFileAtEntry>>

\* c.WriteTo(file): a failed write can leave any part of the contents.
LogoutWrite ==
    /\ UNCHANGED outsideLogout
    /\ opc = "write"
    /\ \E ok \in BOOLEAN :
          /\ LogoutStep("WriteTo", ok, "errWrite", "fsync")
          /\ IF ok THEN confFile' = ConfigFile(oconf)
                   ELSE confFile' \in {confFile, BrokenFile}
    /\ UNCHANGED <<oname, oconf, confFileAtEntry>>

\* file.Sync(); return nil
LogoutFileSync ==
    /\ UNCHANGED outsideLogout
    /\ opc = "fsync"
    /\ \E ok \in BOOLEAN :
          /\ otrace' = Append(otrace, "Sync")
          /\ opc' = "returned"
          /\ oret' = IF ok THEN "nil" ELSE "errFlush"
    /\ UNCHANGED <<confFile, oname, oconf, confFileAtEntry>>

\* A user about to log out of registries: the configuration file is absent,
\* or holds credentials for some registries, or does not parse.
InitLogout ==
    /\ cfg = [imageFuse |-> FALSE, deleteTempDir |-> "", fakeroot |-> FALSE,
              network |-> "none", instance |-> FALSE]
    /\ uid = 0
    /\ euid = 0
    /\ umountPoints = <<>>
    /\ networkSetup = "nil"
    /\ cgroupsManager = "nil"
    /\ cryptDev = ""
    /\ effective = {}
    /\ pc = "none"
    /\ CleanupFresh
    /\ UmountIdle
    /\ AgainIdle
    /\ LoginIdle
    /\ PullIdle
    /\ SetIdle
    /\ StarterIdle
    /\ WrapIdle
    /\ confFile \in {AbsentFile, BrokenFile}
                       \cup {ConfigFile(rs) : rs \in SUBSET RegistryNames}
    /\ opc = "idle"
    /\ oname = ""
    /\ oconf = {}
    /\ oret = "unset"
    /\ otrace = <<>>
    /\ confFileAtEntry = confFile

NextLogout ==
    \/ LogoutCall
    \/ LogoutOpen
    \/ LogoutRead
    \/ LogoutSyncSysConfig
    \/ LogoutLogout
    \/ LogoutTruncate
    \/ LogoutSeek
    \/ LogoutWrite
    \/ LogoutFileSync

SpecLogout == InitLogout /\ [][NextLogout]_vars

\* ------------------------------------------- cleanupCrypt on its own

\* CleanupContainer has reached its crypto step with a crypto device
\* registered, any list of mount points and any effective capability set.
InitCrypt ==
    /\ \E inst \in BOOLEAN :
          cfg = [imageFuse |-> FALSE, deleteTempDir |-> "", fakeroot |-> FALSE,
                 network |-> "none", instance |-> inst]
    /\ uid = 0
    /\ euid = 0
    /\ \E n \in 0..MaxPoints : umountPoints = SubSeq(AllPoints, 1, n)
    /\ networkSetup = "nil"
    /\ cgroupsManager = "nil"
    /\ cryptDev = "/dev/mapper/crypt0"
    /\ effective \in InitialEffective
    /\ pc = "crypt"
    /\ CleanupFresh
    /\ UmountIdle
    /\ AgainIdle
    /\ LogoutIdle
    /\ LoginIdle
    /\ PullIdle
    /\ SetIdle
    /\ StarterIdle
    /\ WrapIdle

NextCrypt ==
    \/ CleanupCrypt
    \/ CleanupCryptClose
    \/ DeleteInstance
    \/ UmountLock
    \/ UmountRaise
    \/ UmountNextPoint
    \/ UmountSyscall
    \/ UmountRestore
    \/ UmountUnlock

SpecCrypt == InitCrypt /\ [][NextCrypt]_vars

\* ------------------------------------------------- umount on its own

\* A caller about to call umount, with any list of mount points and any
\* effective capability set.
InitUmount ==
    /\ cfg = [imageFuse |-> FALSE, deleteTempDir |-> "", fakeroot |-> FALSE,
              network |-> "none", instance |-> FALSE]
    /\ uid = 0
    /\ euid = 0
    /\ \E n \in 0..MaxPoints : umountPoints = SubSeq(AllPoints, 1, n)
    /\ networkSetup = "nil"
    /\ cgroupsManager = "nil"
    /\ cryptDev = ""
    /\ effective \in InitialEffective
    /\ pc = "call"
    /\ CleanupFresh
    /\ UmountIdle
    /\ AgainIdle
    /\ LogoutIdle
    /\ LoginIdle
    /\ PullIdle
    /\ SetIdle
    /\ StarterIdle
    /\ WrapIdle

\* umount(lazy), for either value of lazy.
CallUmount ==
    /\ UNCHANGED outsideCleanup
    /\ pc = "call"
    /\ upc = "idle"
    /\ \E lazy \in BOOLEAN : UmountCall(lazy)
    /\ pc' = "called"
    /\ UNCHANGED <<cfg, uid, euid, umountPoints, networkSetup, cgroupsManager,
                   cryptDev, privileged, ret, trace, failed, removal,
                   escalations, drops>>

NextUmount ==
    \/ CallUmount
    \/ UmountLock
    \/ UmountRaise
    \/ UmountNextPoint
    \/ UmountSyscall
    \/ UmountRestore
    \/ UmountUnlock

SpecUmount == InitUmount /\ [][NextUmount]_vars

\* umount runs on the goroutine that called it: a call that has begun keeps
\* taking its next step.
SpecUmountLive == SpecUmount /\ WF_vars(NextUmount)

\* ------------------------------------------- the OCI launcher's wrappers

\* Overlay descriptions, as strings of characters: a path, optionally
\* followed by a colon and an option.
Descs ==
    { <<"/", "a">>,
      <<"/", "a", ":", "r", "o">>,
      <<"b", ":", "r", "w">>,
      <<"b", ":", "r", "o">>,
      <<"/", "c", ":", "x">>,
      <<"d", ":", "r", "o", ":", "r", "w">> }

\* What the wrapped function f can return: nil or one of two errors.
FResults == {"nil", "errExit1", "errExit2"}

\* The index of the first colon of a string, 0 if it has none.
ColonAt(str) ==
    IF \E k \in 1..Len(str) : str[k] = ":"
       THEN CHOOSE k \in 1..Len(str) :
               str[k] = ":" /\ \A m \in 1..(k - 1) : str[m] # ":"
       ELSE 0

\* strings.SplitN(p, ":", 2)
SplitN2(str) ==
    IF ColonAt(str) = 0
       THEN <<str>>
       ELSE <<SubSeq(str, 1, ColonAt(str) - 1),
              SubSeq(str, ColonAt(str) + 1, Len(str))>>

\* Mutation: only the option rw makes a description writable.
IsWritableDesc_OnlyRw(str) ==
    Len(SplitN2(str)) > 1 /\ SplitN2(str)[2] = <<"r", "w">>

\* writable := true; if len(splitted) > 1 && splitted[1] == "ro" { writable = false }
IsWritableDesc(str) ==
    ~(Len(SplitN2(str)) > 1 /\ SplitN2(str)[2] = <<"r", "o">>)

\* os.Getwd, the working directory filepath.Abs resolves against.
Getwd == <<"/", "w">>

\* filepath.IsAbs
IsAbs(path) == Len(path) >= 1 /\ path[1] = "/"

\* filepath.Abs(path) when os.Getwd succeeds: an absolute path is returned
\* as it is, any other is joined to the working directory. The paths of
\* Descs have no ".", ".." or empty element, so filepath.Clean and
\* filepath.Join leave their elements as they are.
Abs(path) ==
    IF IsAbs(path) THEN path
    ELSE IF path = <<>> THEN Getwd
    ELSE Getwd \o <<"/">> \o path

\* absOverlay(desc): the description with its path made absolute and its
\* option put back after a colon; the error of filepath.Abs when os.Getwd
\* fails for a relative path.
AbsOverlay(desc, getwdOk) ==
    IF ~IsAbs(SplitN2(desc)[1]) /\ ~getwdOk
       THEN [desc |-> <<>>, err |-> "errGetwd"]
    ELSE IF Len(SplitN2(desc)) > 1
       THEN [desc |-> Abs(SplitN2(desc)[1]) \o <<":">> \o SplitN2(desc)[2],
             err |-> "nil"]
    ELSE [desc |-> Abs(SplitN2(desc)[1]), err |-> "nil"]

\* Mutation: the path of a description is resolved against the working
\* directory.
BarePath_Resolved(str) == Abs(SplitN2(str)[1])

\* barePath := splitted[0]
BarePath(str) == SplitN2(str)[1]

\* Mutation: a further writable overlay replaces the one found before.
SecondWritable_Accepted(writable, writableOverlayFound) == FALSE

\* if writable && writableOverlayFound { return fmt.Errorf(...) }
SecondWritable(writable, writableOverlayFound) ==
    writable /\ writableOverlayFound

\* The loop of WrapWithOverlays over overlayPaths from position k on, with
\* the locals writableOverlayFound and ovs: the error of a second writable
\* overlay, or the overlay set built.
RECURSIVE ParseOverlayPaths(_, _, _, _)
ParseOverlayPaths(paths, k, writableOverlayFound, set) ==
    IF k > Len(paths)
       THEN [err |-> "nil", ovs |-> set, rejected |-> <<>>]
    ELSE IF SecondWritable(IsWritableDesc(paths[k]), writableOverlayFound)
       THEN [err |-> "errMoreThanOneWritable", ovs |-> set,
             rejected |-> <<set.WritableLoc, BarePath(paths[k])>>]
    ELSE IF IsWritableDesc(paths[k])
       THEN ParseOverlayPaths(paths, k + 1, TRUE,
                [set EXCEPT !.WritableLoc = BarePath(paths[k])])
    ELSE ParseOverlayPaths(paths, k + 1, writableOverlayFound,
                [set EXCEPT !.ReadonlyLocs = Append(@, BarePath(paths[k]))])

\* "return err" at the end of WrapWithWritableTmpFs: the error of f.
TmpfsReturn(fErr, cleanupError) == fErr

\* Mutation: with no error from f, the cleanup's error is returned.
OverlaysReturn_CleanupError(fErr, cleanupError) ==
    IF fErr = "nil" THEN cleanupError ELSE fErr

\* "return err" at the end of WrapWithOverlays: the error of f.
OverlaysReturn(fErr, cleanupError) == fErr

\* Mutation: the error of the prepare step is not checked.
AfterPrepare_Unchecked(ok) == "f"

\* if err != nil { return err }, after the prepare step of both wrappers
AfterPrepare(ok) == IF ok THEN "f" ELSE "returned"

\* prepareWritableTmpfs: fails if singularity.conf is not loaded, else
\* tools.CreateOverlayTmpfs succeeds or fails.
WrapTmpfsPrepare ==
    /\ UNCHANGED outsideWrap
    /\ wname = "tmpfs"
    /\ wpc = "start"
    /\ wtrace' = Append(wtrace, "prepare")
    /\ IF ~confInit
          THEN /\ werr' = "errConfNotInitialized"
               /\ wret' = "errConfNotInitialized"
               /\ wpc' = AfterPrepare(FALSE)
               /\ prepared' = FALSE
          ELSE \E ok \in BOOLEAN :
                  /\ prepared' = ok
                  /\ werr' = IF ok THEN "nil" ELSE "errCreateOverlayTmpfs"
                  /\ wret' = IF ok THEN wret ELSE "errCreateOverlayTmpfs"
                  /\ wpc' = AfterPrepare(ok)
    /\ UNCHANGED <<wname, overlayPaths, confInit, ovs, fResult, fCalls,
                   cleanupErr, rejected>>

\* WrapWithOverlays up to tools.ApplyOverlay: the descriptions are parsed
\* into an overlay set, a second writable overlay is an error, then the set
\* is applied to the bundle's rootfs.
WrapOverlaysPrepare ==
    /\ UNCHANGED outsideWrap
    /\ wname = "overlays"
    /\ wpc = "start"
    /\ LET parsed == ParseOverlayPaths(overlayPaths, 1, FALSE, EmptyOverlaySet)
       IN  /\ ovs' = parsed.ovs
           /\ rejected' = parsed.rejected
           /\ IF parsed.err # "nil"
                 THEN /\ werr' = parsed.err
                      /\ wret' = parsed.err
                      /\ wpc' = "returned"
                      /\ UNCHANGED <<wtrace, prepared>>
                 ELSE /\ wtrace' = Append(wtrace, "prepare")
                      /\ \E ok \in BOOLEAN :
                            /\ prepared' = ok
                            /\ werr' = IF ok THEN "nil" ELSE "errApplyOverlay"
                            /\ wret' = IF ok THEN wret ELSE "errApplyOverlay"
                            /\ wpc' = AfterPrepare(ok)
    /\ UNCHANGED <<wname, overlayPaths, confInit, fResult, fCalls, cleanupErr>>

\* Mutation: an error of f is returned at once, with no cleanup.
AfterInvoke_ReturnOnError(fErr) ==
    IF fErr = "nil" THEN "cleanup" ELSE "returned"

\* What follows "err = f()" in both wrappers: the cleanup, whatever f
\* returned.
AfterInvoke(fErr) == "cleanup"

\* err = f()
WrapInvoke ==
    /\ UNCHANGED outsideWrap
    /\ wpc = "f"
    /\ \E r \in FResults :
          /\ fResult' = r
          /\ werr' = r
          /\ wpc' = AfterInvoke(r)
          /\ wret' = IF AfterInvoke(r) = "returned" THEN r ELSE wret
    /\ fCalls' = fCalls + 1
    /\ wtrace' = Append(wtrace, "f")
    /\ UNCHANGED <<wname, overlayPaths, confInit, ovs, cleanupErr,
                   rejected, prepared>>

\* cleanupWritableTmpfs: its error is logged; "return err".
WrapTmpfsCleanup ==
    /\ UNCHANGED outsideWrap
    /\ wname = "tmpfs"
    /\ wpc = "cleanup"
    /\ wtrace' = Append(wtrace, "cleanup")
    /\ \E ok \in BOOLEAN :
          /\ cleanupErr' = IF ok THEN "nil" ELSE "errDeleteOverlayTmpfs"
          /\ wret' = TmpfsReturn(werr, cleanupErr')
    /\ wpc' = "returned"
    /\ UNCHANGED <<wname, overlayPaths, confInit, ovs, werr, fResult, fCalls,
                   rejected, prepared>>

\* tools.UnmountOverlay: its error is logged; "return err".
WrapOverlaysCleanup ==
    /\ UNCHANGED outsideWrap
    /\ wname = "overlays"
    /\ wpc = "cleanup"
    /\ wtrace' = Append(wtrace, "cleanup")
    /\ \E ok \in BOOLEAN :
          /\ cleanupErr' = IF ok THEN "nil" ELSE "errUnmountOverlay"
          /\ wret' = OverlaysReturn(werr, cleanupErr')
    /\ wpc' = "returned"
    /\ UNCHANGED <<wname, overlayPaths, confInit, ovs, werr, fResult, fCalls,
                   rejected, prepared>>

\* Lists of at most n overlay descriptions.
DescLists(n) == UNION {[1..m -> Descs] : m \in 0..n}

\* A call of one of the wrappers: WrapWithWritableTmpFs(f, bundleDir) with
\* the configuration loaded or not, or WrapWithOverlays(f, bundleDir,
\* overlayPaths) with any list of descriptions.
InitWrap ==
    /\ cfg = [imageFuse |-> FALSE, deleteTempDir |-> "", fakeroot |-> FALSE,
              network |-> "none", instance |-> FALSE]
    /\ uid = 0
    /\ euid = 0
    /\ umountPoints = <<>>
    /\ networkSetup = "nil"
    /\ cgroupsManager = "nil"
    /\ cryptDev = ""
    /\ effective = {}
    /\ pc = "none"
    /\ CleanupFresh
    /\ UmountIdle
    /\ AgainIdle
    /\ LogoutIdle
    /\ LoginIdle
    /\ PullIdle
    /\ SetIdle
    /\ StarterIdle
    /\ \/ /\ wname = "tmpfs"
          /\ overlayPaths = <<>>
          /\ confInit \in BOOLEAN
       \/ /\ wname = "overlays"
          /\ overlayPaths \in DescLists(MaxOverlays)
          /\ confInit = TRUE
    /\ wpc = "start"
    /\ ovs = EmptyOverlaySet
    /\ werr = "nil"
    /\ wret = "unset"
    /\ wtrace = <<>>
    /\ fResult = "unset"
    /\ fCalls = 0
    /\ cleanupErr = "unset"
    /\ rejected = <<>>
    /\ prepared = FALSE

NextWrap ==
    \/ WrapTmpfsPrepare
    \/ WrapOverlaysPrepare
    \/ WrapInvoke
    \/ WrapTmpfsCleanup
    \/ WrapOverlaysCleanup

SpecWrap == InitWrap /\ [][NextWrap]_vars

\* ------------------------------------------------------------- the starter

\* The values of C.goexecute: the five stages, and OTHER for any value that
\* is none of them.
Stages == {"STAGE1", "STAGE2", "MASTER", "RPC_SERVER", "CLEANUP_HOST"}

Selectors == Stages \cup {"OTHER"}

\* The container PIDs and image file descriptors the shared configuration
\* can hold.
ContainerPids == {0, 4242}

ImageFds == {-1, 3}

\* Mutation: the MASTER and RPC_SERVER branches call each other's function.
StageFunction_Swapped(sel) ==
    CASE sel = "STAGE1" -> "StageOne"
      [] sel = "STAGE2" -> "StageTwo"
      [] sel = "MASTER" -> "RPCServer"
      [] sel = "RPC_SERVER" -> "Master"
      [] sel = "CLEANUP_HOST" -> "CleanupHost"

\* The stage function each case of "switch C.goexecute" calls.
StageFunction(sel) ==
    CASE sel = "STAGE1" -> "StageOne"
      [] sel = "STAGE2" -> "StageTwo"
      [] sel = "MASTER" -> "Master"
      [] sel = "RPC_SERVER" -> "RPCServer"
      [] sel = "CLEANUP_HOST" -> "CleanupHost"

\* The sockets each case passes to its stage function.
StageSockets(sel) ==
    CASE sel = "STAGE1" -> <<>>
      [] sel = "STAGE2" -> <<"master_socket[1]">>
      [] sel = "MASTER" ->
            <<"rpc_socket[0]", "master_socket[0]", "cleanup_socket[0]">>
      [] sel = "RPC_SERVER" -> <<"rpc_socket[1]">>
      [] sel = "CLEANUP_HOST" -> <<"cleanup_socket[1]">>

\* Mutation: the MASTER case does not release the configuration.
CallsRelease_NotMaster(sel) == sel \in {"STAGE2", "RPC_SERVER", "CLEANUP_HOST"}

\* The cases that call sconfig.Release() before their stage function.
CallsRelease(sel) == sel \in {"STAGE2", "MASTER", "RPC_SERVER", "CLEANUP_HOST"}

\* Mutation: the MASTER case is the one that goes through
\* mainthread.Execute.
ThroughExecute_Master(sel) == sel = "MASTER"

\* mainthread.Execute(f): f is sent on mainthread.FuncChannel, and the
\* caller waits until it has run.
Execute(channel, f) == Append(channel, f)

\* The case that hands its stage function to mainthread.Execute.
ThroughExecute(sel) == sel = "STAGE2"

\* The case that reads the container PID and the image file descriptor.
ReadsPidAndFd(sel) == sel = "MASTER"

\* Mutation: startup returns when no case matched or its case came back.
AfterSwitch_Return == "returned"

\* The statement after the switch, reached when no case matched or when the
\* stage function of the case returned: sylog.Fatalf.
AfterSwitch == "fatal"

\* The call of a stage function by the goroutine on thread, with what the
\* case passes to it.
StageCall(sel, thread) ==
    [fn |-> StageFunction(sel), thread |-> thread,
     sockets |-> StageSockets(sel),
     pid |-> IF ReadsPidAndFd(sel) THEN pid ELSE 0,
     imageFd |-> IF ReadsPidAndFd(sel) THEN imageFd ELSE -1,
     released |-> sconfig.released]

\* sylog.Fatalf, or a stage function that ends the process: every goroutine
\* stops.
ProcessEnds(msg) ==
    /\ spc' = "exited"
    /\ mpc' = "exited"
    /\ exitMsg' = msg

\* Mutation: sylog.Fatalf logs and returns to the statement that follows.
AfterFatalf_Returns(next) == next

\* Where startup is after sylog.Fatalf: the process has exited.
AfterFatalf(next) == "exited"

\* sylog.Fatalf(msg) in getEngine and after a failed sconfig.Release(); next
\* is the statement that follows it in the code.
Fatalf(msg, next) ==
    /\ spc' = AfterFatalf(next)
    /\ mpc' = IF AfterFatalf(next) = "exited" THEN "exited" ELSE mpc
    /\ exitMsg' = msg

\* init(): runtime.LockOSThread() and runtime.GOMAXPROCS(1).
StarterInit ==
    /\ UNCHANGED outsideStarter
    /\ mpc = "init"
    /\ mainLocked' = TRUE
    /\ mpc' = "main"
    /\ UNCHANGED <<goexecute, sconfig, spc, funcChannel, pid, imageFd, strace,
                   invoked, exitMsg>>

\* main(): "go startup()", then the loop over mainthread.FuncChannel.
MainSpawn ==
    /\ UNCHANGED outsideStarter
    /\ mpc = "main"
    /\ spc = "unborn"
    /\ mpc' = "loop"
    /\ spc' = "config"
    /\ UNCHANGED <<goexecute, sconfig, mainLocked, funcChannel, pid, imageFd,
                   strace, invoked, exitMsg>>

\* startup(): starterConfig.NewConfig and sconfig.GetJSONConfig().
StartupConfig ==
    /\ UNCHANGED outsideStarter
    /\ spc = "config"
    /\ strace' = strace \o <<"NewConfig", "GetJSONConfig">>
    /\ spc' = "engine"
    /\ UNCHANGED <<goexecute, sconfig, mpc, mainLocked, funcChannel, pid,
                   imageFd, invoked, exitMsg>>

\* getEngine: engine.Get(jsonConfig) returns an engine, or an error and
\* sylog.Fatalf ends the process.
StartupGetEngine ==
    /\ UNCHANGED outsideStarter
    /\ spc = "engine"
    /\ strace' = Append(strace, "engine.Get")
    /\ \E ok \in BOOLEAN :
          IF ok
             THEN /\ spc' = "switch"
                  /\ UNCHANGED <<mpc, exitMsg>>
             ELSE Fatalf("Failed to initialize runtime engine", "switch")
    /\ UNCHANGED <<goexecute, sconfig, mainLocked, funcChannel, pid, imageFd,
                   invoked>>

\* switch C.goexecute: the MASTER case reads the container PID and the image
\* file descriptor; the cases other than STAGE1 go on to sconfig.Release();
\* no case matches any other value.
StartupSwitch ==
    /\ UNCHANGED outsideStarter
    /\ spc = "switch"
    /\ IF ReadsPidAndFd(goexecute)
          THEN /\ pid' = sconfig.containerPid
               /\ imageFd' = sconfig.imageFd
               /\ strace' = strace \o <<"GetContainerPid", "GetImageFd">>
          ELSE UNCHANGED <<pid, imageFd, strace>>
    /\ spc' = IF goexecute \notin Stages THEN AfterSwitch
              ELSE IF CallsRelease(goexecute) THEN "release"
              ELSE "invoke"
    /\ UNCHANGED <<goexecute, sconfig, mpc, mainLocked, funcChannel, invoked,
                   exitMsg>>

\* if err := sconfig.Release(); err != nil { sylog.Fatalf("%s", err) }
StartupRelease ==
    /\ UNCHANGED outsideStarter
    /\ spc = "release"
    /\ strace' = Append(strace, "Release")
    /\ \E ok \in BOOLEAN :
          IF ok
             THEN /\ sconfig' = [sconfig EXCEPT !.released = TRUE]
                  /\ spc' = "invoke"
                  /\ UNCHANGED <<mpc, exitMsg>>
             ELSE /\ Fatalf("Release failed", "invoke")
                  /\ UNCHANGED sconfig
    /\ UNCHANGED <<goexecute, mainLocked, funcChannel, pid, imageFd, invoked>>

\* The call of the case: the stage function itself, or for STAGE2
\* mainthread.Execute, which sends the function to FuncChannel and waits for
\* it to return.
StartupInvoke ==
    /\ UNCHANGED outsideStarter
    /\ spc = "invoke"
    /\ IF ThroughExecute(goexecute)
          THEN /\ funcChannel' = Execute(funcChannel, goexecute)
               /\ strace' = Append(strace, "Execute")
               /\ spc' = "wait"
               /\ UNCHANGED invoked
          ELSE /\ invoked' = Append(invoked, StageCall(goexecute, "startup"))
               /\ strace' = Append(strace, StageFunction(goexecute))
               /\ spc' = "stage"
               /\ UNCHANGED funcChannel
    /\ UNCHANGED <<goexecute, sconfig, mpc, mainLocked, pid, imageFd, exitMsg>>

\* main(): for f := range mainthread.FuncChannel { f() }
MainLoopRun ==
    /\ UNCHANGED outsideStarter
    /\ mpc = "loop"
    /\ funcChannel # <<>>
    /\ invoked' = Append(invoked, StageCall(Head(funcChannel), "main"))
    /\ strace' = Append(strace, StageFunction(Head(funcChannel)))
    /\ funcChannel' = Tail(funcChannel)
    /\ mpc' = "stage"
    /\ UNCHANGED <<goexecute, sconfig, spc, mainLocked, pid, imageFd, exitMsg>>

\* The stage function called by startup ends the process, or returns to the
\* statement after the switch.
StageEnds ==
    /\ UNCHANGED outsideStarter
    /\ spc = "stage"
    /\ \E returns \in BOOLEAN :
          IF returns
             THEN /\ spc' = AfterSwitch
                  /\ UNCHANGED <<mpc, exitMsg>>
             ELSE ProcessEnds("stage")
    /\ UNCHANGED <<goexecute, sconfig, mainLocked, funcChannel, pid, imageFd,
                   strace, invoked>>

\* The stage function run by the loop of main ends the process, or returns:
\* the loop waits for the next function and mainthread.Execute returns to
\* the statement after the switch.
MainStageEnds ==
    /\ UNCHANGED outsideStarter
    /\ mpc = "stage"
    /\ spc = "wait"
    /\ \E returns \in BOOLEAN :
          IF returns
             THEN /\ mpc' = "loop"
                  /\ spc' = AfterSwitch
                  /\ UNCHANGED exitMsg
             ELSE ProcessEnds("stage")
    /\ UNCHANGED <<goexecute, sconfig, mainLocked, funcChannel, pid, imageFd,
                   strace, invoked>>

\* sylog.Fatalf("You should not be there\n")
StartupFatal ==
    /\ UNCHANGED outsideStarter
    /\ spc = "fatal"
    /\ strace' = Append(strace, "Fatalf")
    /\ ProcessEnds("You should not be there")
    /\ UNCHANGED <<goexecute, sconfig, mainLocked, funcChannel, pid, imageFd,
                   invoked>>

\* A starter process after starter.c has set C.goexecute and filled the
\* shared configuration, before the Go runtime runs init().
InitStarter ==
    /\ cfg = [imageFuse |-> FALSE, deleteTempDir |-> "", fakeroot |-> FALSE,
              network |-> "none", instance |-> FALSE]
    /\ uid = 0
    /\ euid = 0
    /\ umountPoints = <<>>
    /\ networkSetup = "nil"
    /\ cgroupsManager = "nil"
    /\ cryptDev = ""
    /\ effective = {}
    /\ pc = "none"
    /\ CleanupFresh
    /\ UmountIdle
    /\ AgainIdle
    /\ LogoutIdle
    /\ LoginIdle
    /\ PullIdle
    /\ SetIdle
    /\ WrapIdle
    /\ goexecute \in Selectors
    /\ \E containerPid \in ContainerPids, fd \in ImageFds :
          sconfig = SharedConfig(containerPid, fd)
    /\ spc = "unborn"
    /\ mpc = "init"
    /\ mainLocked = FALSE
    /\ funcChannel = <<>>
    /\ pid = 0
    /\ imageFd = -1
    /\ strace = <<>>
    /\ invoked = <<>>
    /\ exitMsg = ""

NextStarter ==
    \/ StarterInit
    \/ MainSpawn
    \/ StartupConfig
    \/ StartupGetEngine
    \/ StartupSwitch
    \/ StartupRelease
    \/ StartupInvoke
    \/ MainLoopRun
    \/ StageEnds
    \/ MainStageEnds
    \/ StartupFatal

SpecStarter == InitStarter /\ [][NextStarter]_vars

\* The startup goroutine is scheduled: it takes the switch, and it takes the
\* statement after the switch.
SpecStarterLive ==
    /\ SpecStarter
    /\ WF_vars(StartupSwitch)
    /\ WF_vars(StartupFatal)

\* --------------------------------------------------------- the overlay set

\* The longest list of read-only items, and the most operations on one set.
MaxROItems == 2

MaxSetOps == 4

\* The rootfs directory the set is mounted on.
RootFsDir == "/rootfs"

\* What the tests write to the test file through the mounted root.
Contents == {"my_test_string", "another_string"}

\* Lists of at most n source paths.
SourceLists(n) == UNION {[1..m -> Sources] : m \in 0..n}

\* The sequence in reverse.
Reverse(seq) == [k \in 1..Len(seq) |-> seq[Len(seq) + 1 - k]]

\* The source paths of all items of the set: the read-only ones in the order
\* of the list, then the writable one.
ItemSources(set) ==
    IF set.WritableOverlay = ""
       THEN set.ReadonlyOverlays
       ELSE Append(set.ReadonlyOverlays, set.WritableOverlay)

\* Mutation: only the read-only items are compared with each other.
DuplicateSources_ReadOnlyOnly(set) ==
    \E a, b \in 1..Len(set.ReadonlyOverlays) :
       a # b /\ set.ReadonlyOverlays[a] = set.ReadonlyOverlays[b]

\* The validation of Set.Mount: two items of the set, read-only or writable,
\* have the same source path.
DuplicateSources(set) ==
    \E a, b \in 1..Len(ItemSources(set)) :
       a # b /\ ItemSources(set)[a] = ItemSources(set)[b]

\* Mutation: the lower layers are listed in the order of the list.
LowerDirs_ArrayOrder(set) == set.ReadonlyOverlays

\* The lower layers of the composed overlay, topmost first as the overlay
\* mount takes them: the read-only items from the last of the list to the
\* first.
LowerDirs(set) == Reverse(set.ReadonlyOverlays)

\* The overlay implementation: the kernel's when it supports unprivileged
\* overlays, fuse-overlayfs otherwise.
Implementation == IF kernelSupport THEN "kernel" ELSE "fuse"

\* Mutation: the mounts are undone in the order they were made.
UnmountSequence_MountOrder(made) == made

\* The order in which Set.Unmount undoes the mounts in place: the last made
\* first.
UnmountSequence(made) == Reverse(made)

\* Mutation: Set.Unmount of a set that is not mounted reports success.
UnmountOfUnmounted_Success == "nil"

\* Set.Unmount of a set that is not mounted: "it should fail silently".
UnmountOfUnmounted == "errNotMounted"

\* Mutation: unmounting empties the writable item.
FilesAfterUnmount_UpperEmptied(contents, upper) ==
    IF upper = "" THEN contents ELSE [contents EXCEPT ![upper] = ""]

\* What the sources hold once the set is unmounted: what they held.
FilesAfterUnmount(contents, upper) == contents

\* The set is mounted on the rootfs directory.
Mounted == overlay # NoOverlay

\* The overlay mechanism, kernel or FUSE: the test file read through the
\* rootfs directory is the upper layer's if it has one, else that of the
\* first lower layer that has one; an unmounted rootfs directory is empty.
ReadRoot ==
    IF ~Mounted THEN ""
    ELSE IF overlay.upper # "" /\ files[overlay.upper] # ""
       THEN files[overlay.upper]
    ELSE IF \E k \in 1..Len(overlay.lower) : files[overlay.lower[k]] # ""
       THEN files[overlay.lower[
               CHOOSE k \in 1..Len(overlay.lower) :
                  /\ files[overlay.lower[k]] # ""
                  /\ \A m \in 1..(k - 1) : files[overlay.lower[m]] = ""]]
    ELSE ""

\* Set.Mount(rootFsDir) on a set that is not mounted: a set with duplicate
\* sources is refused with no mount made; otherwise each item is mounted in
\* the order of the list, the writable one last, and the overlay is composed
\* at the rootfs directory.
SetMount ==
    /\ UNCHANGED outsideSet
    /\ nOps < MaxSetOps
    /\ ~Mounted
    /\ lastOp' = "mount"
    /\ wasMounted' = Mounted
    /\ nOps' = nOps + 1
    /\ IF DuplicateSources(oset)
          THEN /\ setErr' = "errDuplicate"
               /\ UNCHANGED <<mounts, overlay, mountCount, mountOrder>>
          ELSE /\ setErr' = "nil"
               /\ mounts' = Append(ItemSources(oset), RootFsDir)
               /\ mountOrder' = Append(ItemSources(oset), RootFsDir)
               /\ overlay' = [lower |-> LowerDirs(oset),
                              upper |-> oset.WritableOverlay,
                              impl |-> Implementation]
               /\ mountCount' = mountCount + 1
    /\ UNCHANGED <<oset, kernelSupport, files, written, umountOrder>>

\* Set.Unmount(rootFsDir): the overlay at the rootfs directory is detached,
\* then the mounts of the items, the last made first; a set that is not
\* mounted is left as it is.
SetUnmount ==
    /\ UNCHANGED outsideSet
    /\ nOps < MaxSetOps
    /\ lastOp' = "unmount"
    /\ wasMounted' = Mounted
    /\ nOps' = nOps + 1
    /\ IF Mounted
          THEN /\ setErr' = "nil"
               /\ umountOrder' = UnmountSequence(mounts)
               /\ mounts' = <<>>
               /\ overlay' = NoOverlay
               /\ files' = FilesAfterUnmount(files, overlay.upper)
          ELSE /\ setErr' = UnmountOfUnmounted
               /\ umountOrder' = <<>>
               /\ UNCHANGED <<mounts, overlay, files>>
    /\ UNCHANGED <<oset, kernelSupport, written, mountCount, mountOrder>>

\* os.WriteFile of the test file under the mounted rootfs directory: the
\* contents go to the upper layer; with no upper layer the overlay is
\* read-only and nothing is written.
SetWrite ==
    /\ UNCHANGED outsideSet
    /\ nOps < MaxSetOps
    /\ Mounted
    /\ lastOp' = "write"
    /\ wasMounted' = Mounted
    /\ nOps' = nOps + 1
    /\ \E content \in Contents :
          IF overlay.upper # ""
             THEN /\ files' = [files EXCEPT ![overlay.upper] = content]
                  /\ written' = content
                  /\ setErr' = "nil"
             ELSE /\ setErr' = "EROFS"
                  /\ UNCHANGED <<files, written>>
    /\ UNCHANGED <<oset, kernelSupport, mounts, overlay, mountCount,
                   mountOrder, umountOrder>>

\* An overlay set as the tests build it, not yet mounted: read-only items,
\* with or without a writable item, each source with or without the test
\* file, the kernel with or without unprivileged overlays.
InitSet ==
    /\ cfg = [imageFuse |-> FALSE, deleteTempDir |-> "", fakeroot |-> FALSE,
              network |-> "none", instance |-> FALSE]
    /\ uid = 0
    /\ euid = 0
    /\ umountPoints = <<>>
    /\ networkSetup = "nil"
    /\ cgroupsManager = "nil"
    /\ cryptDev = ""
    /\ effective = {}
    /\ pc = "none"
    /\ CleanupFresh
    /\ UmountIdle
    /\ AgainIdle
    /\ LogoutIdle
    /\ LoginIdle
    /\ PullIdle
    /\ WrapIdle
    /\ StarterIdle
    /\ \E ro \in SourceLists(MaxROItems), rw \in {"", "/rw", "/ro1"} :
          oset = [ReadonlyOverlays |-> ro, WritableOverlay |-> rw]
    /\ kernelSupport \in BOOLEAN
    /\ mounts = <<>>
    /\ overlay = NoOverlay
    /\ \E holders \in SUBSET Sources :
          files = [src \in Sources |-> IF src \in holders THEN src ELSE ""]
    /\ setErr = "unset"
    /\ lastOp = "none"
    /\ wasMounted = FALSE
    /\ written = ""
    /\ nOps = 0
    /\ mountCount = 0
    /\ mountOrder = <<>>
    /\ umountOrder = <<>>

NextSet ==
    \/ SetMount
    \/ SetUnmount
    \/ SetWrite

SpecSet == InitSet /\ [][NextSet]_vars

\* ------------------------------------------- properties of CleanupContainer

\* The steps CleanupContainer has attempted so far.
Attempted == {trace[k] : k \in 1..Len(trace)}

\* The precondition of each conditional step, read from the configuration
\* and the registries.
Applicable(step) ==
    CASE step = "lazy" -> cfg.imageFuse
      [] step = "tempdir" -> cfg.deleteTempDir # "" /\ ~cfg.imageFuse
      [] step = "network" -> networkSetup # "nil"
      [] step = "cgroup" -> cgroupsManager # "nil"
      [] step = "crypt" -> cryptDev # ""
      [] step = "instance" -> cfg.instance

\* C1: when CleanupContainer has returned, every step whose own precondition
\* holds (temp dir to delete, network handle set, cgroup manager set, crypto
\* device set, instance flag set) has been attempted, whatever earlier steps
\* failed.
C1_LaterStepsNotSkipped ==
    pc = "done" =>
        \A step \in {"lazy", "tempdir", "network", "cgroup", "crypt", "instance"} :
            Applicable(step) => step \in Attempted

\* C1 witness: temp-dir removal and network detach both failed, and cgroup
\* destroy, crypto cleanup and instance deletion were still attempted.
C1_Witness ==
    /\ pc = "done"
    /\ {"tempdir", "network"} \subseteq failed
    /\ {"cgroup", "crypt", "instance"} \subseteq Attempted

\* C2 as stated: a non-nil error is returned only when the container is an
\* instance and the deletion of its instance file (file.Delete) failed.
C2_OnlyDeleteFailureReturned ==
    pc = "done" =>
        (ret # "nil" => cfg.instance /\ "instanceDelete" \in failed)

\* C2 amended: a non-nil error is returned exactly when the container is an
\* instance and either the lookup of its instance file (instance.Get) or the
\* deletion of that file failed; failures of all other steps leave the
\* returned value nil.
C2_OnlyInstanceFailureReturned ==
    pc = "done" =>
        /\ ret # "nil" <=>
              cfg.instance /\ failed \cap {"instanceGet", "instanceDelete"} # {}
        /\ ret = "errInstanceGet" <=> "instanceGet" \in failed
        /\ ret = "errInstanceDelete" <=> "instanceDelete" \in failed

\* C2 witness: an instance whose temp-dir removal, network detach, cgroup
\* destroy and crypto cleanup all failed, and nil is returned.
C2_Witness ==
    /\ pc = "done"
    /\ cfg.instance
    /\ failed = {"tempdir", "network", "cgroup", "crypt"}
    /\ ret = "nil"

\* The place of each step in the documented order.
Rank(step) ==
    CASE step = "fuse" -> 1
      [] step = "lazy" -> 2
      [] step = "tempdir" -> 3
      [] step = "network" -> 4
      [] step = "cgroup" -> 5
      [] step = "crypt" -> 6
      [] step = "crypt_close" -> 7
      [] step = "instance" -> 8

\* C3: the steps run in one fixed order: fuse drivers are stopped first, then
\* lazy unmount, temp-dir removal, network detach, cgroup destroy, crypto
\* unmount and close, instance deletion last; umount runs only while its
\* calling step waits for it, so no step starts before the earlier one is over.
C3_FixedOrder ==
    /\ \A k \in 1..Len(trace) :
          \A m \in 1..Len(trace) : k < m => Rank(trace[k]) < Rank(trace[m])
    /\ pc # "fuse" => Len(trace) >= 1 /\ trace[1] = "fuse"
    /\ upc # "idle" => pc \in {"lazy_ret", "crypt_ret"}
    /\ pc = "lazy_ret" => trace[Len(trace)] = "lazy"
    /\ pc = "crypt_ret" => trace[Len(trace)] = "crypt"
    /\ pc = "done" /\ cfg.instance => trace[Len(trace)] = "instance"

\* C3 witness: a run that attempted every step that can occur together.
C3_Witness ==
    /\ pc = "done"
    /\ trace = <<"fuse", "tempdir", "network", "cgroup", "crypt",
                 "crypt_close", "instance">>

\* ----------------------------------------------------- properties of umount

\* C4 as stated: if umount raised the capabilities, every unmount syscall
\* returned success or EINVAL and the restore succeeded, umount returns nil.
C4_EinvalIsBenign ==
    upc = "returned" /\ raiseOk /\ allBenign /\ restoreOk => err = Nil

\* C5: while a point has only answered "device busy", at most nine times,
\* umount retries it; when the point then succeeds it counts as unmounted,
\* after k+1 <= 10 attempts, and the loop moves on to the next point.
C5_BusyThenSuccess ==
    /\ raiseOk /\ cur >= 0 /\ nCalls = nBusy /\ nBusy \in 1..9 =>
          upc = "syscall" /\ i = cur /\ status[cur] = "pending"
    /\ raiseOk /\ cur >= 0 /\ lastErrno = "OK" /\ nBusy <= 9 =>
          /\ status[cur] = "unmounted"
          /\ nCalls = nBusy + 1
          /\ nCalls <= 10
          /\ i = cur - 1
          /\ \A j \in DOMAIN status : status[j] # "fatal"

\* C5 witness: nine busy answers, then success on the tenth attempt.
C5_Witness ==
    /\ raiseOk
    /\ cur >= 0
    /\ lastErrno = "OK"
    /\ nBusy = 9
    /\ nCalls = 10
    /\ status[cur] = "unmounted"

\* C6 as stated: ten consecutive busy answers on one point are fatal, and no
\* eleventh attempt is made on that point.
C6_TenBusyFatal ==
    /\ nCalls <= 10
    /\ raiseOk /\ cur >= 0 /\ nBusy = 10 => status[cur] = "fatal"

\* C6 amended: after ten consecutive busy answers umount makes an eleventh
\* attempt; eleven consecutive busy answers are fatal (the wrapped EBUSY is
\* returned) and no twelfth attempt is made on that point.
C6_ElevenBusyFatal ==
    /\ nCalls <= 11
    /\ raiseOk /\ cur >= 0 /\ nBusy = 10 /\ nCalls = 10 =>
          upc = "syscall" /\ status[cur] = "pending"
    /\ raiseOk /\ cur >= 0 /\ nBusy = 11 =>
          /\ status[cur] = "fatal"
          /\ upc \in {"restore", "unlock", "returned"}
          /\ err = WrappedErr(PointAt(umountPoints, cur), "EBUSY")

\* C6 witness: umount has returned the fatal error after eleven busy answers.
C6_Witness ==
    /\ upc = "returned"
    /\ raiseOk
    /\ cur >= 0
    /\ nBusy = 11
    /\ nCalls = 11
    /\ status[cur] = "fatal"

\* C7: the points are processed last-mounted first: when the point at index
\* cur is being attempted, every point with a larger index has been finally
\* dealt with (unmounted or not a mount point) and no point with a smaller
\* index has been touched.
C7_ReverseOrder ==
    raiseOk /\ upc # "idle" =>
        /\ \A j \in DOMAIN status :
              /\ j > cur /\ cur >= 0 => status[j] \in {"unmounted", "notmount"}
              /\ j < cur => status[j] = "pending"
        /\ upc = "syscall" => cur = i
        /\ upc = "loop" =>
              \A j \in DOMAIN status :
                  /\ j > i => status[j] \in {"unmounted", "notmount"}
                  /\ j <= i => status[j] = "pending"

\* C7 witness: with two points, index 1 was found not to be a mount point
\* and then index 0 was unmounted.
C7_Witness ==
    /\ raiseOk
    /\ Len(umountPoints) = 2
    /\ cur = 0
    /\ status[1] = "notmount"
    /\ status[0] = "unmounted"

\* C8: once the raise succeeded, the deferred restore is called exactly once
\* on every way out of umount, and if it succeeds the effective set is the
\* one held before the call.
C8_CapabilitiesRestored ==
    upc \in {"unlock", "returned"} /\ raiseOk =>
        /\ restoreCalls = 1
        /\ restoreOk => effective = snapshot

\* C8 witness: umount gave up on a busy point, and the effective set, which
\* differs from the raised one, is back.
C8_Witness ==
    /\ upc = "returned"
    /\ raiseOk
    /\ restoreOk
    /\ \E j \in DOMAIN status : status[j] = "fatal"
    /\ snapshot # UmountCaps
    /\ effective = snapshot

\* C9: if the raise fails, umount returns that error; no unmount syscall was
\* made, no restore was called, and the capability set and the list of mount
\* points are as before the call.
C9_RaiseFailureReturnsEarly ==
    upc \in {"loop", "syscall", "restore", "unlock", "returned"} /\ ~raiseOk =>
        /\ upc \in {"unlock", "returned"}
        /\ err = CapErr("set")
        /\ cur = -1
        /\ nCalls = 0
        /\ lastErrno = "none"
        /\ \A j \in DOMAIN status : status[j] = "pending"
        /\ restoreCalls = 0
        /\ effective = snapshot
        /\ umountPoints = pointsAtEntry

\* C9 witness: the raise failed with two points registered and a non-empty
\* effective set.
C9_Witness ==
    /\ upc = "returned"
    /\ ~raiseOk
    /\ err = CapErr("set")
    /\ Len(umountPoints) = 2
    /\ effective = {"CAP_SYS_ADMIN", "CAP_DAC_OVERRIDE"}

\* ----------------------------------------------- properties of the wrappers

\* C10: whenever f was invoked, the wrapper returns exactly what f returned,
\* nil or its error, whether the cleanup afterwards succeeded or failed.
C10_WrapperReturnsResultOfF ==
    wpc = "returned" /\ fCalls > 0 =>
        /\ fResult \in FResults
        /\ wret = fResult

\* C10 witness: WrapWithOverlays returned nil, the result of f, although
\* unmounting the overlay failed.
C10_Witness ==
    /\ wname = "overlays"
    /\ wpc = "returned"
    /\ fCalls = 1
    /\ fResult = "nil"
    /\ cleanupErr = "errUnmountOverlay"
    /\ wret = "nil"

\* The steps of a wrapper in the order the code takes them.
WrapperSteps == <<"prepare", "f", "cleanup">>

\* C11: in WrapWithWritableTmpFs and in WrapWithOverlays the steps run in the
\* order prepare, f, cleanup, each at most once; once the prepare step has
\* succeeded the wrapper returns only after f has run exactly once and the
\* cleanup exactly once after it, whether f returned nil or an error; with
\* no successful prepare neither f nor the cleanup runs.
C11_PrepareThenFThenCleanup ==
    wname \in {"tmpfs", "overlays"} =>
       /\ \E n \in 0..3 : wtrace = SubSeq(WrapperSteps, 1, n)
       /\ fCalls <= 1
       /\ (prepared /\ wpc = "returned") =>
             (wtrace = WrapperSteps /\ fCalls = 1)
       /\ ~prepared =>
             (fCalls = 0 /\ \A k \in 1..Len(wtrace) : wtrace[k] = "prepare")

\* Both wrappers have returned after f failed, the cleanup having run.
C11_Witness ==
    /\ wname = "overlays"
    /\ wpc = "returned"
    /\ prepared
    /\ fResult = "errExit1"
    /\ wtrace = WrapperSteps

\* ------------------------------------------- overlay descriptions, as the
\* specification reads them

\* The description has no colon.
NoOption(desc) == \A k \in 1..Len(desc) : desc[k] # ":"

\* The text after the first colon of the description is opt.
HasOption(desc, opt) ==
    \E k \in 1..Len(desc) :
       /\ desc[k] = ":"
       /\ \A m \in 1..(k - 1) : desc[m] # ":"
       /\ SubSeq(desc, k + 1, Len(desc)) = opt

\* The description has path as the text before its first colon.
HasPath(desc, path) ==
    \/ NoOption(desc) /\ desc = path
    \/ \E k \in 1..Len(desc) :
          /\ desc[k] = ":"
          /\ \A m \in 1..(k - 1) : desc[m] # ":"
          /\ SubSeq(desc, 1, k - 1) = path

\* No suffix, or the suffix rw: a writable overlay.
SaysWritable(desc) == NoOption(desc) \/ HasOption(desc, <<"r", "w">>)

\* The suffix ro: a read-only overlay.
SaysReadOnly(desc) == HasOption(desc, <<"r", "o">>)

\* The positions of the writable descriptions of the list.
WritableEntries == {k \in 1..Len(overlayPaths) : SaysWritable(overlayPaths[k])}

\* C12: WrapWithOverlays called with a list of two or more writable
\* descriptions never applies the overlay, never invokes f and never attempts
\* an unmount, and returns the error of more than one writable overlay.
C12_TwoWritableRejected ==
    (wname = "overlays" /\ Cardinality(WritableEntries) >= 2) =>
       /\ wtrace = <<>>
       /\ fCalls = 0
       /\ ~prepared
       /\ wpc \in {"start", "returned"}
       /\ wpc = "returned" => wret = "errMoreThanOneWritable"

\* WrapWithOverlays has returned for a list of two writable descriptions.
C12_Witness ==
    /\ wname = "overlays"
    /\ Cardinality(WritableEntries) >= 2
    /\ wpc = "returned"
    /\ wret = "errMoreThanOneWritable"

\* The locations of the overlay set WrapWithOverlays has built.
Locations ==
    {ovs.ReadonlyLocs[j] : j \in 1..Len(ovs.ReadonlyLocs)}
       \cup (IF ovs.WritableLoc = <<>> THEN {} ELSE {ovs.WritableLoc})

\* The paths of the descriptions as they were given.
GivenPaths ==
    {path \in UNION {{SubSeq(overlayPaths[k], 1, n) :
                         n \in 0..Len(overlayPaths[k])} :
                      k \in 1..Len(overlayPaths)} :
        \E k \in 1..Len(overlayPaths) : HasPath(overlayPaths[k], path)}

\* The overlay set has been handed to tools.ApplyOverlay.
Applied == wname = "overlays" /\ Len(wtrace) >= 1

\* C13 as stated: every location handed to the overlay mount step is an
\* absolute path.
C13_LocationsAbsolute ==
    Applied => \A loc \in Locations : loc[1] = "/"

\* C13, amended: the locations handed to the overlay mount step are the paths
\* of the descriptions exactly as given, a relative path staying relative;
\* absOverlay, which WrapWithOverlays does not call, is what turns a
\* description into one with an absolute path and the same option suffix.
C13_LocationsAsGiven ==
    /\ Applied => Locations = GivenPaths
    /\ \A k \in 1..Len(overlayPaths) :
          LET desc == overlayPaths[k]
              abs == AbsOverlay(desc, TRUE).desc
          IN  /\ AbsOverlay(desc, TRUE).err = "nil"
              /\ abs[1] = "/"
              /\ NoOption(desc) <=> NoOption(abs)
              /\ \A n \in 1..Len(desc) :
                    HasOption(desc, SubSeq(desc, n, Len(desc)))
                       <=> HasOption(abs, SubSeq(desc, n, Len(desc)))
              /\ desc[1] = "/" => abs = desc
              /\ desc[1] # "/" =>
                    /\ abs = Getwd \o <<"/">> \o desc
                    /\ AbsOverlay(desc, FALSE).err # "nil"

\* A relative read-only location has been handed to tools.ApplyOverlay.
C13_Witness ==
    /\ Applied
    /\ prepared
    /\ <<"b">> \in Locations
    /\ overlayPaths[1] = <<"b", ":", "r", "o">>

\* The positions of the read-only descriptions of the list.
ReadOnlyEntries == {k \in 1..Len(overlayPaths) : SaysReadOnly(overlayPaths[k])}

\* C20: once WrapWithOverlays has built its overlay set, the path of every
\* description with no suffix or with the suffix rw is the writable location,
\* and the read-only list holds the paths of the descriptions with the suffix
\* ro, one for each and in the order of the list; a path is the text before
\* the first colon of its description.
C20_SuffixDecidesPlace ==
    Applied =>
       /\ \A k \in WritableEntries : HasPath(overlayPaths[k], ovs.WritableLoc)
       /\ Len(ovs.ReadonlyLocs) = Cardinality(ReadOnlyEntries)
       /\ \A k \in ReadOnlyEntries :
             HasPath(overlayPaths[k],
                     ovs.ReadonlyLocs[Cardinality({m \in ReadOnlyEntries : m <= k})])

\* A read-only description followed by a writable one has been placed.
C20_Witness ==
    /\ Applied
    /\ overlayPaths = << <<"/", "a", ":", "r", "o">>, <<"b", ":", "r", "w">> >>
    /\ ovs.WritableLoc = <<"b">>
    /\ ovs.ReadonlyLocs = << <<"/", "a">> >>

\* ------------------------------------------------ properties of the starter

\* The stage function the specification names for each selector value.
Corresponding ==
    [sel \in Stages |->
        IF sel = "STAGE1" THEN "StageOne"
        ELSE IF sel = "STAGE2" THEN "StageTwo"
        ELSE IF sel = "MASTER" THEN "Master"
        ELSE IF sel = "RPC_SERVER" THEN "RPCServer"
        ELSE "CleanupHost"]

\* The process went through its case of the switch: a stage function ended
\* it, or it reached the statement after the switch.
Dispatched == exitMsg \in {"stage", "You should not be there"}

\* C19: for each of the five selector values, the only stage function
\* startup ever invokes is the corresponding one, and a process that went
\* through its case of the switch has invoked it exactly once.
C19_SelectorPicksStage ==
    /\ \A k \in 1..Len(invoked) :
          /\ goexecute \in Stages
          /\ invoked[k].fn = Corresponding[goexecute]
    /\ (goexecute \in Stages /\ Dispatched) => Len(invoked) = 1

\* The master process has been dispatched to starter.Master.
C19_Witness ==
    /\ goexecute = "MASTER"
    /\ Dispatched
    /\ Len(invoked) = 1
    /\ invoked[1].fn = "Master"

\* -------------------------------------------- properties of the overlay set

\* Two read-only items, or a read-only item and the writable item, have the
\* same source path.
SharesSource ==
    \/ \E a \in 1..Len(oset.ReadonlyOverlays) :
          \E b \in (a + 1)..Len(oset.ReadonlyOverlays) :
             oset.ReadonlyOverlays[a] = oset.ReadonlyOverlays[b]
    \/ \E a \in 1..Len(oset.ReadonlyOverlays) :
          oset.ReadonlyOverlays[a] = oset.WritableOverlay

\* C14: a set in which two items share a source path is never mounted:
\* Set.Mount returns an error and no mount of the set is ever in place.
C14_DuplicateNeverMounted ==
    SharesSource =>
       /\ mounts = <<>>
       /\ ~Mounted
       /\ mountCount = 0
       /\ lastOp = "mount" => setErr # "nil"

\* Set.Mount has refused a set whose writable item is also its second
\* read-only item.
C14_Witness ==
    /\ lastOp = "mount"
    /\ oset.ReadonlyOverlays = <<"/ro2", "/ro1">>
    /\ oset.WritableOverlay = "/ro1"
    /\ setErr = "errDuplicate"
    /\ mounts = <<>>

\* C15: Set.Unmount of a mounted set succeeds and leaves no mount in place:
\* the rootfs directory is as before the mount, and the mounts made by
\* Set.Mount, one for each item and one for the rootfs directory, have been
\* undone from the last to the first.
C15_MountUnmountRoundTrip ==
    (lastOp = "unmount" /\ wasMounted) =>
       /\ setErr = "nil"
       /\ mounts = <<>>
       /\ ~Mounted
       /\ ReadRoot = ""
       /\ Len(mountOrder) =
             Len(oset.ReadonlyOverlays)
                + (IF oset.WritableOverlay = "" THEN 0 ELSE 1) + 1
       /\ Len(umountOrder) = Len(mountOrder)
       /\ \A k \in 1..Len(mountOrder) :
             umountOrder[k] = mountOrder[Len(mountOrder) + 1 - k]

\* A set of two read-only items and a writable item has been mounted and
\* unmounted.
C15_Witness ==
    /\ lastOp = "unmount"
    /\ wasMounted
    /\ Len(mountOrder) = 4
    /\ umountOrder[1] = RootFsDir
    /\ mounts = <<>>

C17_WritePersists ==
    written # "" =>
       /\ oset.WritableOverlay # ""
       /\ files[oset.WritableOverlay] = written
       /\ Mounted => ReadRoot = written

\* The test string is read back after write, Unmount and a second Mount
\* with the FUSE overlay.
C17_Witness ==
    /\ written = "my_test_string"
    /\ lastOp = "mount"
    /\ mountCount = 2
    /\ overlay.impl = "fuse"
    /\ ReadRoot = "my_test_string"

\* The read-only items that hold the test file.
Holders == {k \in 1..Len(oset.ReadonlyOverlays) : files[oset.ReadonlyOverlays[k]] # ""}

\* C18: the root of a mounted set shows the test file of the writable item
\* if it holds one, otherwise that of the last read-only item of the list
\* that holds one.
C18_LaterItemShadows ==
    Mounted =>
       ReadRoot =
          IF oset.WritableOverlay # "" /\ files[oset.WritableOverlay] # ""
             THEN files[oset.WritableOverlay]
          ELSE IF Holders # {}
             THEN files[oset.ReadonlyOverlays[
                     CHOOSE k \in Holders : \A m \in Holders : m <= k]]
          ELSE ""

\* Both read-only items hold the file, the writable item does not: the root
\* shows the file of the second.
C18_Witness ==
    /\ Mounted
    /\ oset.ReadonlyOverlays = <<"/ro1", "/ro2">>
    /\ oset.WritableOverlay = "/rw"
    /\ Holders = {1, 2}
    /\ files["/rw"] = ""
    /\ ReadRoot = "/ro2"

\* ------------------------------------- further properties of the wrappers

\* The description has an option that is neither ro nor rw.
Malformed(desc) == ~SaysWritable(desc) /\ ~SaysReadOnly(desc)

\* C21: WrapWithOverlays called with a list that holds a malformed
\* description never applies an overlay and never invokes f, and returns an
\* error.
C21_MalformedRejected ==
    (wname = "overlays"
        /\ \E k \in 1..Len(overlayPaths) : Malformed(overlayPaths[k])) =>
       /\ wtrace = <<>>
       /\ fCalls = 0
       /\ wpc = "returned" => wret \notin {"nil", "unset"}

\* ------------------------------------------ further properties of the starter

\* The last call of startup was a stage function.
StageCameBack ==
    /\ Len(strace) >= 2
    /\ strace[Len(strace)] = "Fatalf"
    /\ strace[Len(strace) - 1] \in {Corresponding[sel] : sel \in Stages}

\* C22: startup invokes at most one stage function and never returns; with a
\* selector that is none of the five no stage function is invoked; and once
\* the switch is left, because no case matched or because the stage function
\* came back, the process ends with "You should not be there", no further
\* stage function having run.
C22_DispatchIsOneShot ==
    /\ [](/\ Len(invoked) <= 1
          /\ spc # "returned"
          /\ goexecute \notin Stages => invoked = <<>>
          /\ spc = "exited" => exitMsg # "")
    /\ [][spc = "fatal" =>
             /\ exitMsg' = "You should not be there"
             /\ spc' = "exited"
             /\ invoked' = invoked]_vars
    /\ (goexecute \notin Stages /\ spc = "switch")
          ~> (exitMsg = "You should not be there" /\ invoked = <<>>)
    /\ (spc = "fatal") ~> (exitMsg = "You should not be there")

\* A stage function came back and the process ended with "You should not be
\* there", one stage function invoked.
C22_Witness ==
    /\ exitMsg = "You should not be there"
    /\ StageCameBack
    /\ Len(invoked) = 1

\* The calls of startup that read a field of the shared configuration.
ConfigReads == {"GetJSONConfig", "GetContainerPid", "GetImageFd"}

\* The positions of a call in the calls of startup.
CallsOf(name) == {k \in 1..Len(strace) : strace[k] = name}

\* C23: StageTwo, Master, RPCServer and CleanupHost are invoked with the
\* shared configuration released, StageOne with it unreleased; the
\* configuration is released at most once, every read of one of its fields
\* comes before the release and the stage function after it; the JSON
\* configuration is read in every stage, and Master receives the container
\* PID and the image file descriptor that the configuration held.
C23_ReleasedBeforeStage ==
    /\ \A k \in 1..Len(invoked) :
          /\ invoked[k].released = (invoked[k].fn # "StageOne")
          /\ CallsOf("GetJSONConfig") # {}
          /\ invoked[k].fn = "Master" =>
                /\ CallsOf("GetContainerPid") # {}
                /\ CallsOf("GetImageFd") # {}
                /\ invoked[k].pid = sconfig.containerPid
                /\ invoked[k].imageFd = sconfig.imageFd
    /\ Cardinality(CallsOf("Release")) <= 1
    /\ \A a \in CallsOf("Release") :
          /\ \A b \in 1..Len(strace) : strace[b] \in ConfigReads => b < a
          /\ \A sel \in Stages : \A b \in CallsOf(Corresponding[sel]) : a < b
    /\ sconfig.released => CallsOf("Release") # {}

\* The master process: PID and image file descriptor read, configuration
\* released, starter.Master invoked.
C23_Witness ==
    /\ Len(invoked) = 1
    /\ invoked[1].fn = "Master"
    /\ invoked[1].released
    /\ invoked[1].pid = 4242
    /\ invoked[1].imageFd = 3

\* C24: from init on the main goroutine is locked to the main thread;
\* startup runs as a goroutine of its own while the main goroutine is in its
\* function loop; a stage function runs on the main thread exactly if it is
\* StageTwo, the startup goroutine then waiting for it; nothing but the
\* StageTwo body is ever sent to the function loop.
C24_StageTwoOnMainThread ==
    /\ mpc \notin {"idle", "init"} => mainLocked
    /\ spc \notin {"idle", "unborn"} => mpc \in {"loop", "stage", "exited"}
    /\ \A k \in 1..Len(invoked) :
          /\ (invoked[k].thread = "main") <=> (invoked[k].fn = "StageTwo")
          /\ invoked[k].thread \in {"main", "startup"}
    /\ mpc = "stage" =>
          /\ mainLocked
          /\ spc = "wait"
          /\ invoked[Len(invoked)].fn = "StageTwo"
    /\ spc = "stage" => invoked[Len(invoked)].fn # "StageTwo"
    /\ \A k \in 1..Len(funcChannel) : funcChannel[k] = "STAGE2"

\* StageTwo is running in the function loop of the locked main goroutine,
\* the startup goroutine waiting.
C24_Witness ==
    /\ mpc = "stage"
    /\ spc = "wait"
    /\ mainLocked
    /\ Len(invoked) = 1
    /\ invoked[1].fn = "StageTwo"
    /\ invoked[1].thread = "main"

\* ----------------------------------------------- further properties of umount

\* The effective set holds a capability it did not hold when umount was
\* called.
Elevated == upc # "idle" /\ (effective \ snapshot) # {}

\* C25: the effective capability set is never elevated while the goroutine
\* is not locked to its thread.
C25_ElevatedOnlyWhileLocked == Elevated => locked

\* ------------------------------------ further properties of CleanupContainer

\* The steps of CleanupContainer that use a registry.
RegistrySteps == {"network", "cgroup", "crypt"}

\* The steps of a sequence of steps.
StepsIn(steps) == {steps[k] : k \in 1..Len(steps)}

\* C26 as stated: when CleanupContainer has returned the registries are
\* empty, and a second call attempts none of the steps that use them.
C26_RegistriesConsumed ==
    pc = "done" =>
       /\ umountPoints = <<>>
       /\ networkSetup = "nil"
       /\ cgroupsManager = "nil"
       /\ cryptDev = ""
       /\ again => StepsIn(trace) \cap RegistrySteps = {}

\* C26, amended: CleanupContainer never assigns to a registry, and a second
\* call attempts every step that uses a registry exactly if the first call
\* attempted it: the network detach for a network-setup handle, the cgroup
\* destroy for a cgroups manager, the crypto cleanup with its unmount pass
\* for a crypto device.
C26_RegistriesLeftAsFound ==
    /\ [][/\ umountPoints' = umountPoints
          /\ networkSetup' = networkSetup
          /\ cgroupsManager' = cgroupsManager
          /\ cryptDev' = cryptDev]_vars
    /\ []((again /\ pc = "done") =>
             /\ StepsIn(trace) \cap RegistrySteps
                   = StepsIn(firstTrace) \cap RegistrySteps
             /\ ("network" \in StepsIn(trace)) <=> (networkSetup # "nil")
             /\ ("cgroup" \in StepsIn(trace)) <=> (cgroupsManager # "nil")
             /\ ("crypt" \in StepsIn(trace)) <=> (cryptDev # ""))

\* A second call has detached the network, destroyed the cgroup and cleaned
\* up the crypto device again, the mount point still registered.
C26_Witness ==
    /\ again
    /\ pc = "done"
    /\ RegistrySteps \subseteq StepsIn(trace)
    /\ RegistrySteps \subseteq StepsIn(firstTrace)
    /\ Len(umountPoints) = 1

\* C27 as stated: whenever the delete-temp-dir path is not empty,
\* CleanupContainer attempts to remove the directory.
C27_TempDirAlwaysRemoved ==
    (pc = "done" /\ cfg.deleteTempDir # "") => "tempdir" \in StepsIn(trace)

\* C27, amended: CleanupContainer attempts to remove the temporary directory
\* exactly when the delete-temp-dir path is not empty and the image-fuse flag
\* is not set.
C27_TempDirRemovedUnlessFuse ==
    pc = "done" =>
       /\ ("tempdir" \in StepsIn(trace))
             <=> (cfg.deleteTempDir # "" /\ ~cfg.imageFuse)
       /\ (removal # "none") <=> ("tempdir" \in StepsIn(trace))

\* CleanupContainer has returned for an image served through FUSE with a
\* temporary directory: lazy unmount attempted, no removal.
C27_Witness ==
    /\ pc = "done"
    /\ cfg.imageFuse
    /\ cfg.deleteTempDir # ""
    /\ "lazy" \in StepsIn(trace)
    /\ "tempdir" \notin StepsIn(trace)
    /\ removal = "none"

\* C28: the removal of the temporary directory is attempted once, by the
\* fakeroot helper exactly when the fakeroot flag is set and the real uid is
\* not 0, by the direct recursive removal otherwise.
C28_FakerootHelperChoice ==
    /\ Cardinality({k \in 1..Len(trace) : trace[k] = "tempdir"}) <= 1
    /\ removal \in {"none", "fakerootCleanup", "RemoveAll"}
    /\ "tempdir" \in StepsIn(trace) =>
          /\ (removal = "fakerootCleanup") <=> (cfg.fakeroot /\ uid # 0)
          /\ (removal = "RemoveAll") <=> ~(cfg.fakeroot /\ uid # 0)

\* The fakeroot helper was used by a process of real uid 1000 and effective
\* uid 0.
C28_Witness ==
    /\ pc = "done"
    /\ removal = "fakerootCleanup"
    /\ cfg.fakeroot
    /\ uid = 1000
    /\ euidAtEntry = 0

\* The steps that follow the network detach.
AfterNetwork == {"cgroup", "crypt", "crypt_ret", "instance", "done"}

C30_LazyOnlyForFuse ==
    /\ (pc = "lazy_ret" /\ upc # "idle") => umountFlags = MNT_DETACH
    /\ (pc = "crypt_ret" /\ upc # "idle") => umountFlags = 0
    /\ upc # "idle" => pc \in {"lazy_ret", "crypt_ret"}
    /\ pc = "lazy_ret" => cfg.imageFuse
    /\ pc = "crypt_ret" => cryptDev # ""
    /\ pc = "done" =>
          /\ ("lazy" \in StepsIn(trace)) <=> cfg.imageFuse
          /\ ("crypt" \in StepsIn(trace)) <=> (cryptDev # "")

\* The strict pass of the crypto cleanup is at its unmount syscall, after
\* the lazy pass of the image-fuse step.
C30_Witness ==
    /\ pc = "crypt_ret"
    /\ upc = "syscall"
    /\ umountFlags = 0
    /\ "lazy" \in StepsIn(trace)
    /\ cfg.imageFuse

\* C31: the close of the crypto device comes after the strict unmount pass
\* has begun and returned, and it is attempted exactly when that pass
\* returned no error; when the pass returned an error, the crypto step is
\* recorded as failed and no close is attempted.
C31_CloseOnlyAfterCleanUnmount ==
    [][/\ (pc = "crypt_ret" /\ pc' # "crypt_ret") =>
             /\ upc = "returned"
             /\ "crypt" \in StepsIn(trace)
             /\ ("crypt_close" \in StepsIn(trace')) <=> (err = Nil)
             /\ err # Nil => (trace' = trace /\ "crypt" \in failed')
       /\ pc # "crypt_ret" => Len(trace') >= Len(trace)
       /\ ("crypt_close" \notin StepsIn(trace)
              /\ "crypt_close" \in StepsIn(trace')) => pc = "crypt_ret"
      ]_vars

\* The strict pass failed on a mount point, the crypto step has returned
\* and the device was not closed.
C31_Witness ==
    /\ pc \in {"instance", "done"}
    /\ "crypt" \in StepsIn(trace)
    /\ "crypt_close" \notin StepsIn(trace)
    /\ "crypt" \in failed
    /\ Len(umountPoints) = 2

\* C32 as stated: when the capability set was raised and restored and every
\* syscall of the strict pass returned success or "not a mount point",
\* cleanupCrypt goes on to close the crypto device.
C32_BenignStrictPassCloses ==
    [][(/\ pc = "crypt_ret"
        /\ pc' # "crypt_ret"
        /\ raiseOk
        /\ restoreOk
        /\ allBenign)
          => "crypt_close" \in StepsIn(trace')]_vars

\* C33: an unmount failure other than "not a mount point" and "device busy"
\* ends the loop at once: the failing syscall is the last one of the call,
\* the point is given up, umount returns an error naming the point, and
\* the points of lower index are never attempted.
C33_OtherErrnoFatalAtOnce ==
    lastErrno = "EPERM" =>
       /\ upc \in {"restore", "unlock", "returned"}
       /\ status[cur] = "fatal"
       /\ nCalls = nBusy + 1
       /\ err = WrappedErr(PointAt(pointsAtEntry, cur), "EPERM")
       /\ i = cur
       /\ \A j \in DOMAIN status : j < cur => status[j] = "pending"

\* umount has returned after EPERM on the point at index 1: the point at
\* index 0 was never attempted.
C33_Witness ==
    /\ upc = "returned"
    /\ lastErrno = "EPERM"
    /\ cur = 1
    /\ nCalls = 1
    /\ status[0] = "pending"
    /\ err.kind = "wrapped"
    /\ err.at = "/session/final"

\* One step of umount, seen by its counters: a syscall is made on the
\* current point only while that point is pending, and the current point
\* changes only to the next lower index, with both counters at zero.
CountedStep ==
    /\ nCalls' > nCalls =>
          /\ upc = "syscall"
          /\ cur' = cur
          /\ status[cur] = "pending"
          /\ nCalls' = nCalls + 1
    /\ cur' # cur =>
          /\ cur' = IF cur = -1 THEN Len(umountPoints) - 1 ELSE cur - 1
          /\ cur' >= 0
          /\ retries' = 0
          /\ nCalls' = 0
    /\ \A j \in DOMAIN status :
          status[j] # "pending" => (j \in DOMAIN status' /\ status'[j] = status[j])

\* C34: the retries counter starts at zero at every mount point and counts
\* the busy failures of that point only; a point gets at most 11 attempts,
\* each point is attempted in one stretch only (hence at most 11 attempts
\* times the number of points in all), and a call of umount that has begun
\* returns.
C34_RetriesPerPointAndTermination ==
    /\ [](/\ upc = "syscall" =>
                /\ retries = nBusy
                /\ nCalls = nBusy
                /\ cur = i
          /\ retries <= MaxRetries
          /\ nCalls <= MaxRetries + 1)
    /\ [][CountedStep]_vars
    /\ (upc = "lock") ~> (upc = "returned")

\* The point at index 0 is at its eleventh attempt, after the point at
\* index 1 was unmounted.
C34_Witness ==
    /\ upc = "syscall"
    /\ Len(pointsAtEntry) = 2
    /\ cur = 0
    /\ status[1] = "unmounted"
    /\ retries = MaxRetries
    /\ nCalls = MaxRetries

PrepareErrors ==
    IF wname = "tmpfs"
       THEN {"errConfNotInitialized", "errCreateOverlayTmpfs"}
       ELSE {"errApplyOverlay"}

\* The prepare step of the wrapper was run and failed.
PrepareFailed == "prepare" \in StepsIn(wtrace) /\ ~prepared

\* C36: when the prepare step of a wrapper fails, the wrapper has returned,
\* with the error of the prepare step (a missing configuration is reported
\* as such and only by WrapWithWritableTmpFs), f was not invoked and the
\* cleanup step was not run.
C36_PrepareFailureReturnsAtOnce ==
    wname \in {"tmpfs", "overlays"} =>
       /\ PrepareFailed =>
             /\ wpc = "returned"
             /\ wret \in PrepareErrors
             /\ wret = werr
             /\ fCalls = 0
             /\ fResult = "unset"
             /\ cleanupErr = "unset"
             /\ wtrace = <<"prepare">>
       /\ (PrepareFailed /\ wname = "tmpfs") =>
             ((wret = "errConfNotInitialized") <=> ~confInit)
       /\ (wpc = "returned" /\ wret \in PrepareErrors) => PrepareFailed

\* WrapWithWritableTmpFs has returned the error of a failed tmpfs creation.
C36_Witness ==
    /\ wname = "tmpfs"
    /\ confInit
    /\ wpc = "returned"
    /\ wret = "errCreateOverlayTmpfs"
    /\ fCalls = 0
    /\ wtrace = <<"prepare">>

\* The messages of the failures that precede the call of a stage function.
EarlyFailures == {"Failed to initialize runtime engine", "Release failed"}

\* C37: when the engine cannot be initialised, or sconfig.Release() fails
\* (which only the STAGE2, MASTER, RPC_SERVER and CLEANUP_HOST cases call),
\* the process has ended, no stage function was invoked and none is waiting
\* in mainthread.FuncChannel; after a failed engine initialisation the switch
\* was not even reached.
C37_NoStageAfterEarlyFailure ==
    exitMsg \in EarlyFailures =>
       /\ spc = "exited"
       /\ mpc = "exited"
       /\ invoked = <<>>
       /\ funcChannel = <<>>
       /\ \A f \in {StageFunction(sel) : sel \in Stages} : f \notin StepsIn(strace)
       /\ "Execute" \notin StepsIn(strace)
       /\ exitMsg = "Release failed" =>
             /\ CallsRelease(goexecute)
             /\ strace[Len(strace)] = "Release"
             /\ ~sconfig.released
       /\ exitMsg = "Failed to initialize runtime engine" =>
             /\ strace[Len(strace)] = "engine.Get"
             /\ "Release" \notin StepsIn(strace)

\* The MASTER case has read the container PID and the image descriptor,
\* sconfig.Release() has failed and the process has ended.
C37_Witness ==
    /\ goexecute = "MASTER"
    /\ exitMsg = "Release failed"
    /\ spc = "exited"
    /\ pid = 4242
    /\ invoked = <<>>

\* ------------------------------------------- properties of the OCI-SIF cache

\* C38: the cache entry of a multi-layer (KeepLayers) request and the entry
\* of a single-layer request never have the same name, whatever the digests;
\* every image in the cache was created by a request of the digest and of
\* the KeepLayers value its entry name stands for; and the image a request
\* gets from the cache was created by a request with its own KeepLayers
\* value and digest.
C38_CacheKeepsLayerModesApart ==
    /\ \A d1 \in Digests, d2 \in Digests :
          CacheName(d1, TRUE) # CacheName(d2, FALSE)
    /\ \A d \in Digests, k \in BOOLEAN :
          imgCache[CacheName(d, k)] \in {NoImage, ImageFor(d, k)}
    /\ (pullErr = "nil" /\ pullOpts.directTo = <<>>) =>
          /\ pulled = ImageFor(pullOpts.digest, pullOpts.KeepLayers)
          /\ pulled = imgCache[CacheName(pullOpts.digest, pullOpts.KeepLayers)]
          /\ imagePath = EntryPath(CacheName(pullOpts.digest,
                                             pullOpts.KeepLayers))

\* A multi-layer request was served from the cache while the cache also
\* holds the single-layer image of the same digest.
C38_Witness ==
    /\ pullErr = "nil"
    /\ pullOpts.KeepLayers
    /\ pullOpts.directTo = <<>>
    /\ cacheExists
    /\ pulled.keepLayers
    /\ imgCache[CacheName(pullOpts.digest, FALSE)]
          = ImageFor(pullOpts.digest, FALSE)

\* --------------------------------- properties of the registry credentials

\* C39: LoginAndStore loads the auth file and stores credentials only after
\* the login check has succeeded; when the check fails, its error is
\* returned at once, no auth file was loaded and every auth file is as it
\* was when the call began; a file changes only by a successful store,
\* which puts the user under the server address of the registry in the
\* chosen file.
C39_StoreOnlyAfterLoginCheck ==
    /\ \E n \in 0..3 : ltrace = SubSeq(<<"check", "load", "store">>, 1, n)
    /\ Len(ltrace) >= 2 => checkOk
    /\ (lpc = "returned" /\ ~checkOk) =>
          /\ lret \in {"errNewRegistry", "errTransport"}
          /\ ltrace = <<"check">>
          /\ authFiles = authFilesAtEntry
          /\ cf.Filename = ""
    /\ authFiles # authFilesAtEntry =>
          /\ checkOk
          /\ ltrace = <<"check", "load", "store">>
          /\ lret = "nil"
    /\ (lpc = "returned" /\ lret = "nil") =>
          /\ checkOk
          /\ authFiles[ChooseAuthFile(largs.reqAuthFile)].exists
          /\ authFiles[ChooseAuthFile(largs.reqAuthFile)]
                .auths[ServerAddress(largs.registry)] = largs.username
          /\ \A p \in AuthPaths :
                p # ChooseAuthFile(largs.reqAuthFile) =>
                   authFiles[p] = authFilesAtEntry[p]

\* A login of bob to DockerHub was refused although the requested auth file
\* holds credentials of alice: the file is as it was.
C39_Witness ==
    /\ lpc = "returned"
    /\ lret = "errTransport"
    /\ largs = [registry |-> DefaultRegistry, username |-> "bob",
                reqAuthFile |-> "/req/auth.json"]
    /\ authFiles["/req/auth.json"].exists
    /\ authFiles["/req/auth.json"].auths[DefaultAuthKey] = "alice"
    /\ authFiles = authFilesAtEntry

\* ----------------------------------------- properties of registry logout

\* The errors of the steps that precede the truncation of the file.
EarlyLogoutErrors == {"errParse", "errSync", "errLogout"}

\* The steps of RegistryLogout in the order of the code.
LogoutSteps ==
    <<"OpenFile", "ReadFrom", "syncSysConfig", "Logout", "Truncate", "Seek",
      "WriteTo", "Sync">>

\* C40 as stated: when parsing, the system-configuration sync or Logout
\* fails, RegistryLogout returns the error and the configuration file is as
\* it was when the call began.
C40_FileUntouchedOnEarlyFailure ==
    (opc = "returned" /\ oret \in EarlyLogoutErrors) =>
       confFile = confFileAtEntry

\* C40, amended: the steps run in the order of the code, so the file is
\* truncated and rewritten only after parsing, sync and Logout succeeded;
\* when one of these three fails, RegistryLogout returns its error, nothing
\* was truncated or written, and the file is as it was at entry if it
\* existed then; a file that did not exist has been created empty by the
\* open, before the parsing.
C40_ExistingFileUntouchedOnEarlyFailure ==
    /\ \E n \in 0..Len(LogoutSteps) : otrace = SubSeq(LogoutSteps, 1, n)
    /\ (opc = "returned" /\ oret \in EarlyLogoutErrors) =>
          /\ "Truncate" \notin StepsIn(otrace)
          /\ "WriteTo" \notin StepsIn(otrace)
          /\ confFile = IF confFileAtEntry.exists THEN confFileAtEntry
                                                  ELSE EmptyFile
    /\ (opc = "returned" /\ oret = "errOpen") => confFile = confFileAtEntry
    /\ (confFile # confFileAtEntry /\ confFileAtEntry.exists) =>
          SubSeq(LogoutSteps, 1, 5) = SubSeq(otrace, 1, 5)
    /\ (opc = "returned" /\ oret = "nil") =>
          confFile = ConfigFile(oconf)

\* There was no configuration file; Logout failed and RegistryLogout has
\* returned, leaving the empty file the open created.
C40_Witness ==
    /\ opc = "returned"
    /\ oret = "errLogout"
    /\ ~confFileAtEntry.exists
    /\ confFile = EmptyFile
    /\ otrace = SubSeq(LogoutSteps, 1, 4)

====
